---- MODULE Spec2Model ----
(***************************************************************************)
(* Model of the ETF comparison engine (src/comparison_utils.py) and of the *)
(* ETF data service (src/etf_data_service.py).                             *)
(*                                                                         *)
(* ComparisonUtils holds no fields: every operation is a function of its   *)
(* arguments.  ETFDataService holds the API keys read at construction; its *)
(* operations are functions of their arguments, of the keys and of what    *)
(* the providers answer.  Each state machine is a caller that, from        *)
(* "idle", invokes one operation on arguments drawn from bounded pools,    *)
(* records what the operation returned (or raised), and returns to "idle": *)
(* Spec calls the operations of ComparisonUtils, ServiceSpec those of      *)
(* ETFDataService.                                                         *)
(*                                                                         *)
(* Representation of Python values                                         *)
(*   dict           a function whose DOMAIN is the set of keys present     *)
(*   list           a sequence                                             *)
(*   str (ticker, symbol)   a sequence of one-character strings            *)
(*   str (aum, expense ratio)   Text(s), s such a sequence                 *)
(*   str (names)    a string, or Str(s) in a cell of a frame               *)
(*   float          Num(n) for the number n, or NaN; an amount is          *)
(*                  Decimal(neg, v, e), the number v * 10^e                *)
(*   None           the value None                                         *)
(* Num, Str, Text, NaN and None are records told apart by their first      *)
(* field k, so that any two of them can be compared.                       *)
(* Number units are stated with each operation.                            *)
(***************************************************************************)
EXTENDS Integers, Sequences, FiniteSets, TLC

VARIABLES pc, op, args, result, raised, alpha_vantage_key, polygon_key

\* the API keys the service reads; api_key is set and never read
keys == <<alpha_vantage_key, polygon_key>>

vars == <<pc, op, args, result, raised, alpha_vantage_key, polygon_key>>

(***************************************************************************)
(* Bounds of the model.                                                    *)
(***************************************************************************)
MaxHoldings == 2
MaxSectors == 2

(***************************************************************************)
(* Python floats, with NaN.                                                *)
(***************************************************************************)
NaN == [k |-> "nan", v |-> 0]

Num(n) == [k |-> "num", v |-> n]

Str(s) == [k |-> "str", v |-> s]

None == [k |-> "none", v |-> 0]

IsNaN(a) == a.k = "nan"

IsNum(a) == a.k = "num"

FSub(a, b) == IF IsNaN(a) \/ IsNaN(b) THEN NaN ELSE Num(a.v - b.v)

FAbs(a) == IF IsNaN(a) THEN NaN ELSE Num(IF a.v < 0 THEN -a.v ELSE a.v)

\* a < b on floats: every comparison with NaN is false
FLt(a, b) == IsNum(a) /\ IsNum(b) /\ a.v < b.v

\* round(n / d) for d > 0, ties to even (Python's round on an exactly
\* representable value)
RoundHalfEven(n, d) ==
  LET q == n \div d
      r == n % d
  IN  IF 2 * r < d THEN q
      ELSE IF 2 * r > d THEN q + 1
      ELSE IF q % 2 = 0 THEN q ELSE q + 1

(***************************************************************************)
(* str.upper(), character by character.                                    *)
(***************************************************************************)
LowerChars ==
  <<"a", "b", "c", "d", "e", "f", "g", "h", "i", "j", "k", "l", "m",
    "n", "o", "p", "q", "r", "s", "t", "u", "v", "w", "x", "y", "z">>

UpperChars ==
  <<"A", "B", "C", "D", "E", "F", "G", "H", "I", "J", "K", "L", "M",
    "N", "O", "P", "Q", "R", "S", "T", "U", "V", "W", "X", "Y", "Z">>

UpperChar(c) ==
  IF \E i \in 1..26 : LowerChars[i] = c
  THEN UpperChars[CHOOSE i \in 1..26 : LowerChars[i] = c]
  ELSE c

Upper(s) == [i \in 1..Len(s) |-> UpperChar(s[i])]

(***************************************************************************)
(* pandas.DataFrame(list of dicts): the columns are the union of the keys; *)
(* a row that lacks a key of another row holds NaN in that column.         *)
(***************************************************************************)
\* the value of key c of a holding, as a cell of the frame
Cell(c, x) == IF c = "ticker" THEN Str(x) ELSE Num(x)

Columns(holdings) == UNION {DOMAIN holdings[i] : i \in 1..Len(holdings)}

DataFrame(holdings) ==
  [columns |-> Columns(holdings),
   rows    |-> [i \in 1..Len(holdings) |->
                 [c \in Columns(holdings) |->
                   IF c \in DOMAIN holdings[i]
                   THEN Cell(c, holdings[i][c]) ELSE NaN]]]

\* Series.str.upper() on one cell: NaN stays NaN
StrUpper(cell) == IF IsNaN(cell) THEN NaN ELSE Str(Upper(cell.v))

\* set(df['ticker']): the tickers as written
TickerSetAsWritten(df) == {df.rows[i]["ticker"] : i \in 1..Len(df.rows)}

\* set(df['ticker'].str.upper()) with the placeholder "N/A" left out
UpperTickerSetWithoutPlaceholder(df) ==
  {StrUpper(df.rows[i]["ticker"]) : i \in 1..Len(df.rows)}
    \ {Str(<<"N", "/", "A">>)}

\* set(df['ticker'].str.upper())
UpperTickerSet(df) == {StrUpper(df.rows[i]["ticker"]) : i \in 1..Len(df.rows)}

\* Series.get(key, default) on a row of the frame: the default is used only
\* when the frame has no such column
RowGet(row, key, default) == IF key \in DOMAIN row THEN row[key] ELSE default

(***************************************************************************)
(* calculate_portfolio_overlap.  The result is in hundredths of a percent  *)
(* (3333 is 33.33).                                                        *)
(***************************************************************************)
TickersOfFirst(tickers1, tickers2) == tickers1

TotalUniqueTickers(tickers1, tickers2) == tickers1 \cup tickers2

OverlapPercentage(overlapping_tickers, total_unique_tickers) ==
  RoundHalfEven(Cardinality(overlapping_tickers) * 10000,
                Cardinality(total_unique_tickers))

calculate_portfolio_overlap(holdings1, holdings2) ==
  IF Len(holdings1) = 0 \/ Len(holdings2) = 0 THEN 0
  ELSE
    LET df1 == DataFrame(holdings1)
        df2 == DataFrame(holdings2)
    IN  IF "ticker" \notin df1.columns \/ "ticker" \notin df2.columns THEN 0
        ELSE
          LET tickers1 == UpperTickerSet(df1)
              tickers2 == UpperTickerSet(df2)
              overlapping_tickers == tickers1 \cap tickers2
              total_unique_tickers == TotalUniqueTickers(tickers1, tickers2)
          IN  IF total_unique_tickers = {} THEN 0
              ELSE OverlapPercentage(overlapping_tickers, total_unique_tickers)

(***************************************************************************)
(* find_overlapping_holdings.  An entry of the result carries the ticker   *)
(* and the three weight fields; company_name and sector are copied from    *)
(* the same two rows and are read by no operation here.  Weights are in    *)
(* percent.                                                                *)
(***************************************************************************)
\* df[df['ticker'].str.upper() == ticker]: the indices of the matching rows
\* (NaN == NaN is false, so NaN matches no row)
MatchingRows(df, ticker) ==
  IF IsNaN(ticker) THEN {}
  ELSE {i \in 1..Len(df.rows) : StrUpper(df.rows[i]["ticker"]) = ticker}

Min(S) == CHOOSE m \in S : \A n \in S : m <= n

Max(S) == CHOOSE m \in S : \A n \in S : m >= n

\* .iloc[-1]: the last of the matching rows
IlocLast(df, matching) == df.rows[Max(matching)]

\* .iloc[0]: the first of the matching rows (the caller checks there is one)
Iloc0(df, matching) == df.rows[Min(matching)]

overlap_data(df1, df2, ticker) ==
  LET holding1 == Iloc0(df1, MatchingRows(df1, ticker))
      holding2 == Iloc0(df2, MatchingRows(df2, ticker))
  IN  [ticker            |-> ticker.v,
       weight_etf1       |-> RowGet(holding1, "weight", Num(0)),
       weight_etf2       |-> RowGet(holding2, "weight", Num(0)),
       weight_difference |-> FAbs(FSub(RowGet(holding1, "weight", Num(0)),
                                       RowGet(holding2, "weight", Num(0))))]

\* the orders in which "for ticker in overlapping_tickers" can visit a set:
\* the iteration order of a set of strings is not fixed by the language
IterationOrders(S) ==
  {f \in [1..Cardinality(S) -> S] :
     \A i, j \in 1..Cardinality(S) : f[i] = f[j] => i = j}

\* list.sort(key=weight_difference, reverse=True) on keys that are all
\* numbers: descending and stable.  InsertDesc puts e behind every entry
\* whose key is not smaller.
RECURSIVE InsertDesc(_, _)
InsertDesc(e, sorted) ==
  IF sorted = << >> THEN <<e>>
  ELSE IF FLt(Head(sorted).weight_difference, e.weight_difference)
       THEN <<e>> \o sorted
       ELSE <<Head(sorted)>> \o InsertDesc(e, Tail(sorted))

RECURSIVE StableSortDesc(_)
StableSortDesc(overlaps) ==
  IF overlaps = << >> THEN << >>
  ELSE InsertDesc(overlaps[Len(overlaps)],
                  StableSortDesc(SubSeq(overlaps, 1, Len(overlaps) - 1)))

\* every arrangement of a list
Arrangements(overlaps) ==
  {[i \in 1..Len(overlaps) |-> overlaps[p[i]]] :
     p \in IterationOrders(1..Len(overlaps))}

\* the lists overlaps.sort(...) can leave: with a NaN key the comparisons
\* are inconsistent (every "<" with NaN is false) and the order the sort
\* leaves depends on its internals, so every arrangement is allowed
SortOutcomes(overlaps) ==
  IF \E i \in 1..Len(overlaps) : IsNaN(overlaps[i].weight_difference)
  THEN Arrangements(overlaps)
  ELSE {StableSortDesc(overlaps)}

Returned(value) == [raised |-> "none", value |-> value]

Raised(exception) == [raised |-> exception, value |-> None]

\* the outcomes of find_overlapping_holdings(holdings1, holdings2)
find_overlapping_holdings(holdings1, holdings2) ==
  IF Len(holdings1) = 0 \/ Len(holdings2) = 0 THEN {Returned(<< >>)}
  ELSE
    LET df1 == DataFrame(holdings1)
        df2 == DataFrame(holdings2)
    IN  IF "ticker" \notin df1.columns \/ "ticker" \notin df2.columns
        THEN {Returned(<< >>)}
        ELSE
          LET overlapping_tickers == UpperTickerSet(df1) \cap UpperTickerSet(df2)
          IN  IF overlapping_tickers = {} THEN {Returned(<< >>)}
              ELSE IF \E t \in overlapping_tickers :
                        MatchingRows(df1, t) = {} \/ MatchingRows(df2, t) = {}
              THEN {Raised("IndexError")}
              ELSE UNION {
                     {Returned(sorted) :
                        sorted \in SortOutcomes(
                          [i \in 1..Len(order) |-> overlap_data(df1, df2, order[i])])} :
                     order \in IterationOrders(overlapping_tickers)}

(***************************************************************************)
(* compare_sector_allocations.  A sector allocation is a dict from sector  *)
(* name to weight in percent.  similarity_score is in hundredths (9950 is  *)
(* 99.50); relative_difference, which the code does not round, is kept as  *)
(* the fraction num / den.                                                 *)
(***************************************************************************)
\* dict.get(key, default)
DictGet(d, key, default) == IF key \in DOMAIN d THEN d[key] ELSE default

Abs(n) == IF n < 0 THEN -n ELSE n

Max2(a, b) == IF a >= b THEN a ELSE b

\* difference / max(weight1, weight2, 1) * 100, without the guard
UnguardedRelativeDifference(weight1, weight2) ==
  [num |-> Abs(weight1 - weight2) * 100, den |-> Max2(Max2(weight1, weight2), 1)]

\* difference / max(weight1, weight2, 1) * 100 if max(weight1, weight2) > 0
\* else 0
RelativeDifference(weight1, weight2) ==
  IF Max2(weight1, weight2) > 0
  THEN [num |-> Abs(weight1 - weight2) * 100,
        den |-> Max2(Max2(weight1, weight2), 1)]
  ELSE [num |-> 0, den |-> 1]

SectorEntry(weight1, weight2) ==
  [etf1_weight         |-> weight1,
   etf2_weight         |-> weight2,
   difference          |-> Abs(weight1 - weight2),
   relative_difference |-> RelativeDifference(weight1, weight2)]

\* total_difference as the loop over all_sectors accumulates it
RECURSIVE TotalDifference(_, _, _)
TotalDifference(sector1, sector2, sectors) ==
  IF sectors = {} THEN 0
  ELSE LET sector == CHOOSE s \in sectors : TRUE
       IN  Abs(DictGet(sector1, sector, 0) - DictGet(sector2, sector, 0))
             + TotalDifference(sector1, sector2, sectors \ {sector})

\* round(100 - total_difference / n, 2), without the floor at 0
UnflooredSimilarityScore(total_difference, n) ==
  IF n = 0 THEN 10000
  ELSE RoundHalfEven(100 * (100 * n - total_difference), n)

\* round(total_difference / n, 2): the average difference itself
AverageDifferenceScore(total_difference, n) ==
  IF n = 0 THEN 0 ELSE RoundHalfEven(100 * total_difference, n)

\* round(max(0, 100 - (total_difference / n if n else 0)), 2)
SimilarityScore(total_difference, n) ==
  IF n = 0 THEN 10000
  ELSE IF 100 * n - total_difference < 0 THEN 0
  ELSE RoundHalfEven(100 * (100 * n - total_difference), n)

\* {} when both allocations are empty
compare_sector_allocations(sector1, sector2) ==
  IF DOMAIN sector1 = {} /\ DOMAIN sector2 = {} THEN << >>
  ELSE
    LET all_sectors == DOMAIN sector1 \cup DOMAIN sector2
    IN  [sector_comparison |->
           [sector \in all_sectors |->
              SectorEntry(DictGet(sector1, sector, 0), DictGet(sector2, sector, 0))],
         similarity_score |->
           SimilarityScore(TotalDifference(sector1, sector2, all_sectors),
                           Cardinality(all_sectors)),
         total_sectors  |-> Cardinality(all_sectors),
         common_sectors |-> Cardinality(DOMAIN sector1 \cap DOMAIN sector2)]

(***************************************************************************)
(* compare_expense_ratios.  An ETF record is a dict; its expense_ratio,    *)
(* when the key is present, is None or Num(e) with e in units of 0.00001   *)
(* percentage points (3000 is 0.03).  In the result, difference is in      *)
(* units of 0.0001 (4 decimals) and savings_basis_points in units of 0.01  *)
(* (2 decimals).                                                           *)
(***************************************************************************)
\* etf1's symbol also when the two ratios are equal
CheaperEtfTieToFirst(expense1, expense2, symbol1, symbol2) ==
  IF expense1 <= expense2 THEN symbol1 ELSE symbol2

\* etf1_data.get('symbol') if expense1 < expense2 else etf2_data.get('symbol')
CheaperEtf(expense1, expense2, symbol1, symbol2) ==
  IF expense1 < expense2 THEN symbol1 ELSE symbol2

\* the difference cut, not rounded, to 4 decimals
TruncatedDifference(difference) == difference \div 10

\* round(difference, 4)
RoundedDifference(difference) == RoundHalfEven(difference, 10)

\* round(difference * 100, 2)
SavingsBasisPoints(difference) == RoundHalfEven(difference * 100, 1000)

\* dict.get('symbol'): None when the record has no symbol
SymbolOf(etf_data) ==
  IF "symbol" \in DOMAIN etf_data THEN Str(etf_data.symbol) ELSE None

compare_expense_ratios(etf1_data, etf2_data) ==
  LET expense1 == DictGet(etf1_data, "expense_ratio", None)
      expense2 == DictGet(etf2_data, "expense_ratio", None)
  IN  IF expense1 = None \/ expense2 = None
      THEN [etf1_expense_ratio   |-> expense1,
            etf2_expense_ratio   |-> expense2,
            difference           |-> None,
            cheaper_etf          |-> None,
            savings_basis_points |-> None]
      ELSE
        LET difference == Abs(expense1.v - expense2.v)
        IN  [etf1_expense_ratio   |-> expense1,
             etf2_expense_ratio   |-> expense2,
             difference           |-> Num(RoundedDifference(difference)),
             cheaper_etf          |-> CheaperEtf(expense1.v, expense2.v,
                                                 SymbolOf(etf1_data),
                                                 SymbolOf(etf2_data)),
             savings_basis_points |-> Num(SavingsBasisPoints(difference))]

(***************************************************************************)
(* AUM values.  A text is a sequence of one-character strings, Text(s).    *)
(* A float that holds an amount is the decimal v * 10^e with its sign,     *)
(* Decimal(neg, v, e), kept with v free of trailing zeros so that equal    *)
(* amounts are equal records; the arithmetic below is exact, as the floats *)
(* are for the amounts of the pools.  Other stands for a value that is     *)
(* neither None, a number nor a str (a list, a dict).                      *)
(***************************************************************************)
Text(s) == [k |-> "text", v |-> s]

Other == [k |-> "other", v |-> 0]

IsText(a) == a.k = "text"

RECURSIVE Pow10(_)
Pow10(n) == IF n = 0 THEN 1 ELSE 10 * Pow10(n - 1)

RECURSIVE StripZeros(_, _)
StripZeros(v, e) ==
  IF v # 0 /\ v % 10 = 0 THEN StripZeros(v \div 10, e + 1) ELSE <<v, e>>

Decimal(neg, v, e) ==
  IF v = 0 THEN [k |-> "num", neg |-> neg, v |-> 0, e |-> 0]
  ELSE LET n == StripZeros(v, e)
       IN  [k |-> "num", neg |-> neg, v |-> n[1], e |-> n[2]]

RECURSIVE NumDigits(_)
NumDigits(v) == IF v < 10 THEN 1 ELSE 1 + NumDigits(v \div 10)

IsNegative(a) == a.neg /\ a.v # 0

\* |a| < |b|: by the order of magnitude, then by the aligned digits
AbsLt(a, b) ==
  IF b.v = 0 THEN FALSE
  ELSE IF a.v = 0 THEN TRUE
  ELSE LET oa == NumDigits(a.v) + a.e
           ob == NumDigits(b.v) + b.e
           lo == IF a.e < b.e THEN a.e ELSE b.e
       IN  IF oa # ob THEN oa < ob
           ELSE a.v * Pow10(a.e - lo) < b.v * Pow10(b.e - lo)

\* a < b and a > b on floats
DLt(a, b) ==
  IF IsNegative(a) # IsNegative(b) THEN IsNegative(a)
  ELSE IF IsNegative(a) THEN AbsLt(b, a) ELSE AbsLt(a, b)

DGt(a, b) == DLt(b, a)

\* max(a, b) and min(a, b): the first argument unless the second is
\* greater (smaller)
DMax(a, b) == IF DGt(b, a) THEN b ELSE a

DMin(a, b) == IF DLt(b, a) THEN b ELSE a

\* a * 10^n
Scale(a, n) == Decimal(a.neg, a.v, a.e + n)

\* round(a * 10^shift / b, 2) for b # 0, in hundredths
RoundedQuotient(a, b, shift) ==
  LET d == a.e - b.e + shift + 2
      n == IF d >= 0 THEN a.v * Pow10(d) ELSE a.v
      den == IF d >= 0 THEN b.v ELSE b.v * Pow10(-d)
      h == RoundHalfEven(n, den)
  IN  IF IsNegative(a) # IsNegative(b) THEN -h ELSE h

(***************************************************************************)
(* str methods on texts.                                                   *)
(***************************************************************************)
\* s.replace(c, '')
RECURSIVE Remove(_, _)
Remove(s, c) ==
  IF s = << >> THEN << >>
  ELSE IF Head(s) = c THEN Remove(Tail(s), c)
  ELSE <<Head(s)>> \o Remove(Tail(s), c)

\* s.strip()
RECURSIVE Strip(_)
Strip(s) ==
  IF s = << >> THEN << >>
  ELSE IF Head(s) = " " THEN Strip(Tail(s))
  ELSE IF s[Len(s)] = " " THEN Strip(SubSeq(s, 1, Len(s) - 1))
  ELSE s

\* s.upper().endswith(c), s.endswith(c)
UpperEndsWith(s, c) == s # << >> /\ UpperChar(s[Len(s)]) = c

EndsWith(s, c) == s # << >> /\ s[Len(s)] = c

\* s[:-1]
DropLast(s) == IF s = << >> THEN << >> ELSE SubSeq(s, 1, Len(s) - 1)

DigitChars == <<"0", "1", "2", "3", "4", "5", "6", "7", "8", "9">>

IsDigit(c) == \E i \in 1..10 : DigitChars[i] = c

DigitValue(c) == (CHOOSE i \in 1..10 : DigitChars[i] = c) - 1

\* the number written by a sequence of digits
RECURSIVE DigitsValue(_)
DigitsValue(s) ==
  IF s = << >> THEN 0
  ELSE 10 * DigitsValue(SubSeq(s, 1, Len(s) - 1)) + DigitValue(s[Len(s)])

ValueError == [k |-> "error", v |-> "ValueError"]

\* float(s) for a str: blanks around it are ignored, then an optional sign,
\* then digits with at most one point and at least one digit; anything else
\* raises ValueError.  (Exponents, underscores, inf and nan are outside the
\* alphabet of the pools.)
float(s) ==
  LET t == Strip(s)
      signed == t # << >> /\ Head(t) \in {"-", "+"}
      body == IF signed THEN Tail(t) ELSE t
      points == {i \in 1..Len(body) : body[i] = "."}
      point == IF points = {} THEN Len(body) + 1
               ELSE CHOOSE i \in points : TRUE
      whole == SubSeq(body, 1, point - 1)
      frac == SubSeq(body, point + 1, Len(body))
      digits == whole \o frac
  IN  IF /\ Cardinality(points) <= 1
         /\ digits # << >>
         /\ \A i \in 1..Len(digits) : IsDigit(digits[i])
      THEN Decimal(signed /\ Head(t) = "-", DigitsValue(digits), -Len(frac))
      ELSE ValueError

(***************************************************************************)
(* _parse_aum.                                                             *)
(***************************************************************************)
\* the suffix is looked for as written, without upper()
CaseSensitiveMultiplierExponent(clean_value) ==
  IF EndsWith(clean_value, "B") THEN 9
  ELSE IF EndsWith(clean_value, "M") THEN 6
  ELSE IF EndsWith(clean_value, "K") THEN 3
  ELSE 0

\* the multiplier 1_000_000_000, 1_000_000, 1_000 or 1, as a power of ten
MultiplierExponent(clean_value) ==
  IF UpperEndsWith(clean_value, "B") THEN 9
  ELSE IF UpperEndsWith(clean_value, "M") THEN 6
  ELSE IF UpperEndsWith(clean_value, "K") THEN 3
  ELSE 0

\* a text that float() rejects counts as the amount 0.0
ZeroForUnparsedAum(aum_value) ==
  IF aum_value.k = "none" \/ (IsText(aum_value) /\ aum_value.v = <<"N", "/", "A">>)
  THEN None
  ELSE IF IsNum(aum_value) THEN aum_value
  ELSE IF IsText(aum_value)
  THEN LET stripped == Strip(Remove(Remove(aum_value.v, "$"), ","))
           exponent == MultiplierExponent(stripped)
           clean_value == IF exponent # 0 THEN DropLast(stripped) ELSE stripped
           number == float(clean_value)
       IN  IF number.k = "error" THEN Decimal(FALSE, 0, 0)
           ELSE Scale(number, exponent)
  ELSE None

_parse_aum(aum_value) ==
  IF aum_value.k = "none" \/ (IsText(aum_value) /\ aum_value.v = <<"N", "/", "A">>)
  THEN None
  ELSE IF IsNum(aum_value) THEN aum_value
  ELSE IF IsText(aum_value)
  THEN LET stripped == Strip(Remove(Remove(aum_value.v, "$"), ","))
           exponent == MultiplierExponent(stripped)
           clean_value == IF exponent # 0 THEN DropLast(stripped) ELSE stripped
           number == float(clean_value)
       IN  IF number.k = "error" THEN None ELSE Scale(number, exponent)
  ELSE None

(***************************************************************************)
(* compare_aum.  size_ratio is in hundredths.                              *)
(***************************************************************************)
\* etf1's symbol also when the two amounts are equal
LargerEtfTieToFirst(aum1_numeric, aum2_numeric, symbol1, symbol2) ==
  IF ~DLt(aum1_numeric, aum2_numeric) THEN symbol1 ELSE symbol2

\* etf1_data.get('symbol') if aum1_numeric > aum2_numeric
\* else etf2_data.get('symbol')
LargerEtf(aum1_numeric, aum2_numeric, symbol1, symbol2) ==
  IF DGt(aum1_numeric, aum2_numeric) THEN symbol1 ELSE symbol2

\* max / min cut, not rounded, to 2 decimals
TruncatedSizeRatio(aum1_numeric, aum2_numeric) ==
  LET a == DMax(aum1_numeric, aum2_numeric)
      b == DMin(aum1_numeric, aum2_numeric)
      d == a.e - b.e + 2
      n == IF d >= 0 THEN a.v * Pow10(d) ELSE a.v
      den == IF d >= 0 THEN b.v ELSE b.v * Pow10(-d)
  IN  IF IsNegative(a) # IsNegative(b) THEN -(n \div den) ELSE n \div den

\* round(max(aum1_numeric, aum2_numeric) / min(aum1_numeric, aum2_numeric), 2)
SizeRatio(aum1_numeric, aum2_numeric) ==
  RoundedQuotient(DMax(aum1_numeric, aum2_numeric),
                  DMin(aum1_numeric, aum2_numeric), 0)

compare_aum(etf1_data, etf2_data) ==
  LET aum1 == DictGet(etf1_data, "aum", None)
      aum2 == DictGet(etf2_data, "aum", None)
      aum1_numeric == _parse_aum(aum1)
      aum2_numeric == _parse_aum(aum2)
  IN  IF aum1_numeric.k = "none" \/ aum2_numeric.k = "none"
      THEN Returned([etf1_aum   |-> aum1,
                     etf2_aum   |-> aum2,
                     larger_etf |-> None,
                     size_ratio |-> None])
      ELSE IF DMin(aum1_numeric, aum2_numeric).v = 0
      THEN Raised("ZeroDivisionError")
      ELSE Returned([etf1_aum         |-> aum1,
                     etf2_aum         |-> aum2,
                     etf1_aum_numeric |-> aum1_numeric,
                     etf2_aum_numeric |-> aum2_numeric,
                     larger_etf       |-> LargerEtf(aum1_numeric, aum2_numeric,
                                                    SymbolOf(etf1_data),
                                                    SymbolOf(etf2_data)),
                     size_ratio       |-> Num(SizeRatio(aum1_numeric,
                                                        aum2_numeric))])

(***************************************************************************)
(* generate_comparison_summary.  In a record handed to it, holdings is     *)
(* None or List(l) and sector_allocation is None or Dict(d), so that a     *)
(* null field is told from a filled one.  The entries of the summary are   *)
(* evaluated in the order written; the first exception ends the call.      *)
(***************************************************************************)
List(l) == [k |-> "list", v |-> l]

Dict(d) == [k |-> "dict", v |-> d]

\* 'not x' for None, a list or a dict
Not(x) == x.k = "none" \/ x.v = << >>

\* the list (dict) in x; None takes the branch of the empty one wherever
\* only 'not x' is asked
Unwrap(x) == IF x.k = "none" THEN << >> ELSE x.v

\* compare_sector_allocations on what the records hold: None has no keys()
SectorComparison(sector1, sector2) ==
  IF Not(sector1) /\ Not(sector2) THEN Returned(<< >>)
  ELSE IF sector1.k = "none" \/ sector2.k = "none"
  THEN Raised("AttributeError")
  ELSE Returned(compare_sector_allocations(sector1.v, sector2.v))

generate_comparison_summary(etf1_data, etf2_data) ==
  LET holdings1 == Unwrap(DictGet(etf1_data, "holdings", List(<< >>)))
      holdings2 == Unwrap(DictGet(etf2_data, "holdings", List(<< >>)))
      sectors == SectorComparison(
                   DictGet(etf1_data, "sector_allocation", Dict(<< >>)),
                   DictGet(etf2_data, "sector_allocation", Dict(<< >>)))
      aum == compare_aum(etf1_data, etf2_data)
  IN  IF sectors.raised # "none" THEN {sectors}
      ELSE IF aum.raised # "none" THEN {aum}
      ELSE {IF overlaps.raised # "none" THEN overlaps
            ELSE Returned(
                   [etf1_symbol |-> DictGet(etf1_data, "symbol", "N/A"),
                    etf2_symbol |-> DictGet(etf2_data, "symbol", "N/A"),
                    portfolio_overlap |->
                      calculate_portfolio_overlap(holdings1, holdings2),
                    sector_comparison |-> sectors.value,
                    expense_ratio_comparison |->
                      compare_expense_ratios(etf1_data, etf2_data),
                    aum_comparison |-> aum.value,
                    overlapping_holdings |-> overlaps.value]) :
            overlaps \in find_overlapping_holdings(holdings1, holdings2)}

(***************************************************************************)
(* ETFDataService (src/etf_data_service.py).                               *)
(*                                                                         *)
(* _format_aum.  The amounts of the pools round to 2 decimals without a    *)
(* tie, so the rounding of the exact amount is the rounding of the float.  *)
(***************************************************************************)
\* str(n) for an integer n >= 0
RECURSIVE IntText(_)
IntText(n) ==
  IF n < 10 THEN <<DigitChars[n + 1]>>
  ELSE IntText(n \div 10) \o <<DigitChars[(n % 10) + 1]>>

\* f"{aum / 10^scale:.2f}"
TwoDecimals(aum, scale) ==
  LET d == aum.e - scale + 2
      h == IF d >= 0 THEN aum.v * Pow10(d) ELSE RoundHalfEven(aum.v, Pow10(-d))
  IN  (IF aum.neg THEN <<"-">> ELSE << >>)
        \o IntText(h \div 100) \o <<".">>
        \o <<DigitChars[((h % 100) \div 10) + 1], DigitChars[(h % 10) + 1]>>

\* aum > 10^e
MoreThan(aum, e) == DGt(aum, Decimal(FALSE, 1, e))

\* aum >= 10^e
AtLeast(aum, e) == ~DLt(aum, Decimal(FALSE, 1, e))

\* str(aum_value) for a text and for Other, the list [0]
StrOf(x) == IF IsText(x) THEN x ELSE Text(<<"[", "0", "]">>)

\* float(value) for a number, a str and Other (TypeError)
FloatOf(value) ==
  IF IsNum(value) THEN value
  ELSE IF IsText(value) THEN float(value.v)
  ELSE [k |-> "error", v |-> "TypeError"]

_format_aum(aum_value) ==
  IF aum_value.k = "none" THEN Text(<<"N", "/", "A">>)
  ELSE LET aum == FloatOf(aum_value)
       IN  IF aum.k = "error" THEN StrOf(aum_value)
           ELSE IF AtLeast(aum, 9)
           THEN Text(<<"$">> \o TwoDecimals(aum, 9) \o <<"B">>)
           ELSE IF AtLeast(aum, 6)
           THEN Text(<<"$">> \o TwoDecimals(aum, 6) \o <<"M">>)
           ELSE IF AtLeast(aum, 3)
           THEN Text(<<"$">> \o TwoDecimals(aum, 3) \o <<"K">>)
           ELSE Text(<<"$">> \o TwoDecimals(aum, 0))

(***************************************************************************)
(* _safe_float.                                                            *)
(***************************************************************************)
\* the truth value of None, a number, a str and Other (the list [0])
Truthy(value) ==
  CASE value.k = "none" -> FALSE
    [] IsNum(value) -> value.v # 0
    [] IsText(value) -> value.v # << >>
    [] OTHER -> TRUE

_safe_float(value) ==
  IF Truthy(value) /\ value # Text(<<"N", "o", "n", "e">>)
  THEN LET stripped == IF IsText(value) /\ EndsWith(value.v, "%")
                       THEN Text(DropLast(value.v)) ELSE value
           number == FloatOf(stripped)
       IN  IF number.k = "error" THEN None ELSE number
  ELSE None

(***************************************************************************)
(* _calculate_performance_metrics.  hist is the sequence of the rows of    *)
(* the price history, each with Close, High and Low in thousandths; the    *)
(* metrics are in hundredths.  The prices are numpy floats: a division by  *)
(* zero raises nothing and gives inf, -inf or nan.                         *)
(***************************************************************************)
Inf == [k |-> "inf", v |-> 1]

NegInf == [k |-> "inf", v |-> -1]

\* a finite float whose digits are not computed here
Finite == [k |-> "finite", v |-> 0]

\* n / d * 100 cut, not rounded, to 2 decimals
TruncatedPercent(n, d) ==
  IF d = 0 THEN (IF n = 0 THEN NaN ELSE IF n > 0 THEN Inf ELSE NegInf)
  ELSE Num((n * 10000) \div d)

\* round(n / d * 100, 2) for d >= 0
RoundedPercent(n, d) ==
  IF d = 0 THEN (IF n = 0 THEN NaN ELSE IF n > 0 THEN Inf ELSE NegInf)
  ELSE Num(RoundHalfEven(n * 10000, d))

\* hist['Close'].pct_change().dropna(): the changes that are not nan, each
\* told by whether it is finite
DailyReturns(hist) ==
  LET change(i) == IF hist[i].Close # 0 THEN "finite"
                   ELSE IF hist[i + 1].Close # 0 THEN "inf" ELSE "nan"
  IN  {<<i, change(i)>> : i \in 1..(Len(hist) - 1)}
        \ {<<i, "nan">> : i \in 1..Len(hist)}

\* round(daily_returns.std() * (252 ** 0.5) * 100, 2): the standard
\* deviation of fewer than two values, or of values with inf among them,
\* is nan
Volatility(hist) ==
  LET daily_returns == DailyReturns(hist)
  IN  IF Cardinality(daily_returns) < 2 THEN NaN
      ELSE IF \E r \in daily_returns : r[2] = "inf" THEN NaN
      ELSE Finite

\* hist['Close'].iloc[0]
StartPrice(hist) == hist[1].Close

_calculate_performance_metrics(hist) ==
  IF hist = << >> THEN << >>
  ELSE
    LET current_price == hist[Len(hist)].Close
        start_price == StartPrice(hist)
        week_52_high == Max({hist[i].High : i \in 1..Len(hist)})
        week_52_low == Min({hist[i].Low : i \in 1..Len(hist)})
    IN  [1_year_return |-> RoundedPercent(current_price - start_price, start_price),
         volatility |-> Volatility(hist),
         52_week_high |-> Num(RoundHalfEven(week_52_high, 10)),
         52_week_low |-> Num(RoundHalfEven(week_52_low, 10)),
         current_vs_52w_high |->
           RoundedPercent(current_price - week_52_high, week_52_high)]

(***************************************************************************)
(* Argument pools.  A holding is a dict with a ticker (a string) and an    *)
(* optional weight; a list handed over without the ticker field lacks it   *)
(* in every holding.  Tickers come in two spellings of one symbol and in   *)
(* other symbols, so that matching is by upper-cased ticker.               *)
(***************************************************************************)
TickerPool == {<<"a", "b">>, <<"A", "B">>, <<"C">>}

WeightPool == {2, 7}

\* holdings that carry a ticker, with or without a weight
TickerHoldings ==
  {[ticker |-> t, weight |-> w] : t \in TickerPool, w \in WeightPool}
    \cup {[ticker |-> t] : t \in TickerPool}

\* holdings of a list that has no ticker field
BareHoldings == {[weight |-> w] : w \in WeightPool} \cup {<< >>}

SeqsUpTo(S, n) == UNION {[1..k -> S] : k \in 0..n}

\* the first list of find_overlapping_holdings
HoldingsLists ==
  SeqsUpTo(TickerHoldings, MaxHoldings) \cup SeqsUpTo(BareHoldings, MaxHoldings)

\* its second list draws from fewer holdings: upper-case tickers, with the
\* weight 7 or without a weight
SecondTickerHoldings ==
  {[ticker |-> t, weight |-> 7] : t \in {<<"A", "B">>, <<"C">>}}
    \cup {[ticker |-> t] : t \in {<<"A", "B">>, <<"C">>}}

SecondHoldingsLists ==
  SeqsUpTo(SecondTickerHoldings, MaxHoldings)
    \cup SeqsUpTo({[weight |-> 7], << >>}, MaxHoldings)

\* calculate_portfolio_overlap reads the ticker column only: its lists draw
\* tickers from a wider pool and carry at most one weight
OverlapTickerPool == TickerPool \cup {<<"d">>}

OverlapHoldingsLists ==
  SeqsUpTo({[ticker |-> t] : t \in OverlapTickerPool}, MaxHoldings)
    \cup SeqsUpTo({[weight |-> 7], << >>}, MaxHoldings)

\* holdings as _get_holdings_from_yfinance builds them: every ticker is the
\* placeholder "N/A", whoever the holder is
PlaceholderHoldings ==
  {[ticker |-> <<"N", "/", "A">>, weight |-> w] : w \in WeightPool}

PlaceholderHoldingsLists ==
  SeqsUpTo(PlaceholderHoldings, MaxHoldings) \ {<< >>}

SectorNames == <<"Technology", "Healthcare", "Financials">>

Sectors == {SectorNames[i] : i \in 1..MaxSectors}

\* weights in percent: a short position, an empty sector, a plain weight
\* and a leveraged one
SectorWeightPool == {-5, 0, 28, 250}

SectorAllocations == UNION {[D -> SectorWeightPool] : D \in SUBSET Sectors}

SymbolPool == {"VTI", "VOO"}

\* 0.03, 0.07, 0.03003 and 0.09457: no two of them differ by an exact tie
\* of the fourth decimal, so rounding the exact difference is rounding the
\* float
ExpensePool == {3000, 7000, 3003, 9457}

ExpenseRecords ==
  {[symbol |-> s, expense_ratio |-> e] :
     s \in SymbolPool, e \in {None} \cup {Num(x) : x \in ExpensePool}}
    \cup {[symbol |-> s] : s \in SymbolPool}

(***************************************************************************)
(* AUM texts: an optional "$", a number, an optional scale suffix in       *)
(* either case; and texts that are no amount.                              *)
(***************************************************************************)
AumNumberTexts ==
  {<<"1", ".", "5", "0">>, <<"7", "5", "0">>, <<"1", ",", "5", "0", "0">>,
   <<"-", "2", ".", "5">>, <<"0">>}

AumPrefixes == {<< >>, <<"$">>}

AumSuffixes ==
  {<< >>, <<"B">>, <<"b">>, <<"M">>, <<"m">>, <<"K">>, <<"k">>}

AmountTexts ==
  {p \o n \o s : p \in AumPrefixes, n \in AumNumberTexts, s \in AumSuffixes}

\* "", "B", "$", "abc", "1.2.3", "1.5BB" and " "
MalformedTexts ==
  {<< >>, <<"B">>, <<"$">>, <<"a", "b", "c">>, <<"1", ".", "2", ".", "3">>,
   <<"1", ".", "5", "B", "B">>, <<" ">>}

\* 42.0, 0.0 and 5000000000.0
AumNumbers ==
  {Decimal(FALSE, 42, 0), Decimal(FALSE, 0, 0), Decimal(FALSE, 5, 9)}

AumValues ==
  {Text(s) : s \in AmountTexts \cup MalformedTexts \cup {<<"N", "/", "A">>}}
    \cup AumNumbers \cup {None, Other}

\* the aum of the records handed to compare_aum: None, "N/A", "abc",
\* "$10B", "$5B", "$1.50B", "750M", "-5B", "$0" and the number 5000000000.0
ComparedAumValues ==
  {None, Decimal(FALSE, 5, 9)}
    \cup {Text(s) : s \in {<<"N", "/", "A">>, <<"a", "b", "c">>,
                           <<"$", "1", "0", "B">>, <<"$", "5", "B">>,
                           <<"$", "1", ".", "5", "0", "B">>,
                           <<"7", "5", "0", "M">>, <<"-", "5", "B">>,
                           <<"$", "0">>}}

AumRecords ==
  {[symbol |-> s, aum |-> a] : s \in SymbolPool, a \in ComparedAumValues}
    \cup {[symbol |-> s] : s \in SymbolPool}

(***************************************************************************)
(* Records handed to generate_comparison_summary: holdings,                *)
(* sector_allocation and expense_ratio are all missing, all None, all      *)
(* empty (None for the expense ratio) or all filled; the aum is missing,   *)
(* None, no amount, zero or an amount.                                     *)
(***************************************************************************)
SummaryAumValues ==
  {None} \cup {Text(s) : s \in {<<"a", "b", "c">>, <<"$", "0">>,
                                <<"$", "5", "B">>, <<"$", "1", "0", "B">>}}

FilledHoldings ==
  {<<[ticker |-> <<"a", "b">>, weight |-> 2], [ticker |-> <<"C">>, weight |-> 7]>>,
   <<[ticker |-> <<"C">>, weight |-> 2]>>}

SummaryFields ==
  {<< >>,
   [holdings |-> None, sector_allocation |-> None, expense_ratio |-> None],
   [holdings |-> List(<< >>), sector_allocation |-> Dict(<< >>),
    expense_ratio |-> None]}
    \cup {[holdings |-> List(h), sector_allocation |-> Dict(s),
           expense_ratio |-> Num(e)] :
            h \in FilledHoldings,
            s \in {("Technology" :> 28)},
            e \in {3000}}

\* the fields of f and the key k with the value x
With(f, k, x) ==
  [key \in DOMAIN f \cup {k} |-> IF key = k THEN x ELSE f[key]]

SummaryRecords ==
  {With(f, "symbol", "VTI") : f \in SummaryFields}
    \cup {With(With(f, "symbol", "VTI"), "aum", a) :
            f \in SummaryFields, a \in SummaryAumValues}

(***************************************************************************)
(* Arguments of the service's operations and answers of the providers.     *)
(***************************************************************************)
MaxPrices == 3

\* totals handed to _format_aum: from 10 billion down to a negative amount,
\* with the totals at and just below each scale
FormatTotals ==
  {Decimal(FALSE, 1, 10), Decimal(FALSE, 15, 8), Decimal(FALSE, 1, 9),
   Decimal(FALSE, 999999999, 0), Decimal(FALSE, 75, 7), Decimal(FALSE, 1, 6),
   Decimal(FALSE, 999999, 0), Decimal(FALSE, 1234, 0), Decimal(FALSE, 1236, 0),
   Decimal(FALSE, 1, 3), Decimal(FALSE, 99999, -2), Decimal(FALSE, 999996, -3),
   Decimal(FALSE, 42, 0), Decimal(FALSE, 0, 0), Decimal(TRUE, 525, -2)}

\* and "1234", "abc", None and the list [0]
FormatValues ==
  FormatTotals
    \cup {Text(<<"1", "2", "3", "4">>), Text(<<"a", "b", "c">>), None, Other}

\* 0.03, 0 and 0.2 as numbers; "0.03", "0.03%", "0", "0%", " 0.5 ", "",
\* "None", "abc", "5%%" and "%"; None and the list [0]
SafeFloatValues ==
  {Decimal(FALSE, 3, -2), Decimal(FALSE, 0, 0), Decimal(FALSE, 2, -1), None, Other}
    \cup {Text(s) : s \in {<<"0", ".", "0", "3">>, <<"0", ".", "0", "3", "%">>,
                           <<"0">>, <<"0", "%">>, <<" ", "0", ".", "5", " ">>,
                           << >>, <<"N", "o", "n", "e">>, <<"a", "b", "c">>,
                           <<"5", "%", "%">>, <<"%">>}}

\* rows of a price history, in thousandths: no price rounds to 2 decimals
\* on a tie
PriceRows ==
  {[Close |-> 0, High |-> 0, Low |-> 0],
   [Close |-> 0, High |-> 4, Low |-> 0],
   [Close |-> 3, High |-> 4, Low |-> 3],
   [Close |-> 4, High |-> 17, Low |-> 3],
   [Close |-> 17, High |-> 17, Low |-> 4]}

Histories == SeqsUpTo(PriceRows, MaxPrices)

\* "vti", " QQQ ", "x", the empty text and a blank one
SearchTexts ==
  {<<"v", "t", "i">>, <<" ", "Q", "Q", "Q", " ">>, <<"x">>, << >>, <<" ", " ">>}

Response(raises, status_code, data) ==
  [raises |-> raises, status_code |-> status_code, data |-> data]

AlphaVantageResponses ==
  {Response(TRUE, 0, << >>), Response(FALSE, 500, << >>),
   Response(FALSE, 200, << >>),
   Response(FALSE, 200,
            [Symbol |-> <<"V", "T", "I">>,
             Name |-> "Vanguard Total Stock Market ETF",
             ExpenseRatio |-> Text(<<"0", ".", "0", "3", "%">>),
             MarketCapitalization |->
               Text(<<"1", "5", "0", "0", "0", "0", "0", "0", "0", "0">>)]),
   Response(FALSE, 200,
            [Symbol |-> <<"V", "T", "I">>,
             ExpenseRatio |-> Text(<<"N", "o", "n", "e">>)]),
   Response(FALSE, 200, [Symbol |-> <<"S", "P", "Y">>])}

PolygonResponses ==
  {Response(TRUE, 0, << >>), Response(FALSE, 404, << >>),
   Response(FALSE, 200, << >>),
   Response(FALSE, 200,
            [results |-> [name |-> "Vanguard Total Stock Market ETF",
                          market_cap |-> Decimal(FALSE, 15, 8)]]),
   Response(FALSE, 200, [results |-> [type |-> "ETF"]]),
   Response(FALSE, 200, [results |-> List(<< >>)])}

YahooInfos ==
  {[symbol |-> <<"V", "T", "I">>,
    longName |-> "Vanguard Total Stock Market ETF",
    fundFamily |-> "Vanguard",
    category |-> "Large Blend",
    totalAssets |-> Decimal(FALSE, 15, 8),
    annualReportExpenseRatio |-> Decimal(FALSE, 3, -4),
    regularMarketPrice |-> Decimal(FALSE, 22015, -2),
    regularMarketChange |-> Decimal(TRUE, 125, -2),
    regularMarketChangePercent |-> Decimal(TRUE, 56, -2),
    regularMarketVolume |-> Decimal(FALSE, 3, 6)],
   [symbol |-> <<"V", "T", "I">>,
    shortName |-> "VTI",
    category |-> "Specialty",
    fundInceptionDate |-> Decimal(FALSE, 990662400, 0),
    previousClose |-> Decimal(FALSE, 22140, -2)],
   [symbol |-> <<"V", "T", "I">>, category |-> "Technology", totalAssets |-> None],
   [symbol |-> <<"V", "T", "I">>]}

YahooHistories ==
  {<< >>,
   <<[Close |-> 17, High |-> 17, Low |-> 4]>>,
   <<[Close |-> 0, High |-> 4, Low |-> 0], [Close |-> 3, High |-> 4, Low |-> 3]>>,
   <<[Close |-> 3, High |-> 4, Low |-> 3], [Close |-> 4, High |-> 17, Low |-> 3],
     [Close |-> 17, High |-> 17, Low |-> 4]>>}

YahooHolders ==
  {None, List(<< >>),
   List(<<[Holder |-> "Vanguard Group", Shares |-> Decimal(FALSE, 1, 3),
           Value |-> Decimal(FALSE, 5, 3)]>>),
   List(<<[Holder |-> "Blackrock"]>>)}

Now == "2024-01-01 00:00:00"

YahooResponse(raises, info, hist, holders, holders_raise) ==
  [raises |-> raises, info |-> info, hist |-> hist,
   institutional_holders |-> holders, holders_raise |-> holders_raise,
   now |-> Now]

YahooResponses ==
  {YahooResponse(TRUE, << >>, << >>, None, FALSE),
   YahooResponse(FALSE, << >>, << >>, None, FALSE),
   YahooResponse(FALSE, [shortName |-> "VTI"], << >>, None, FALSE)}
    \cup {YahooResponse(FALSE, info, hist, holders, FALSE) :
            info \in YahooInfos, hist \in YahooHistories, holders \in YahooHolders}
    \cup {YahooResponse(FALSE, info, << >>, None, TRUE) : info \in YahooInfos}

(***************************************************************************)
(* The providers.  What a provider answers is an input of the call: a      *)
(* response says whether the request (or reading its body) raises, its     *)
(* status code and its decoded body.  Names, sources and dates are         *)
(* strings; symbols and amounts are texts.                                 *)
(***************************************************************************)
NA == Text(<<"N", "/", "A">>)

\* _fetch_holdings_alpha_vantage and _fetch_sector_allocation_alpha_vantage
\* return [] and {}
_parse_alpha_vantage_data(data, symbol) ==
  [symbol            |-> symbol,
   name              |-> DictGet(data, "Name", "N/A"),
   issuer            |-> DictGet(data, "AssetType", "N/A"),
   category          |-> DictGet(data, "Sector", "N/A"),
   description       |-> DictGet(data, "Description", ""),
   expense_ratio     |-> _safe_float(DictGet(data, "ExpenseRatio", None)),
   aum               |-> DictGet(data, "MarketCapitalization", NA),
   holdings          |-> << >>,
   sector_allocation |-> << >>,
   data_source       |-> "Alpha Vantage",
   last_updated      |-> DictGet(data, "LastRefreshed", None)]

\* _fetch_from_alpha_vantage without the check that the answer is about the
\* symbol asked for
AlphaVantageWithoutSymbolCheck(response, symbol) ==
  IF response.raises THEN None
  ELSE IF response.status_code = 200 /\ "Symbol" \in DOMAIN response.data
  THEN _parse_alpha_vantage_data(response.data, symbol)
  ELSE None

_fetch_from_alpha_vantage(response, symbol) ==
  IF response.raises THEN None
  ELSE IF /\ response.status_code = 200
          /\ "Symbol" \in DOMAIN response.data
          /\ response.data.Symbol = symbol
  THEN _parse_alpha_vantage_data(response.data, symbol)
  ELSE None

\* a body's value is a JSON array: it has no get()
IsList(x) == DOMAIN x = {"k", "v"} /\ x.k = "list"

\* results that are no dict make data.get raise: the function catches it
\* and returns None
_parse_polygon_data(data, symbol) ==
  IF IsList(data) THEN None ELSE
  [symbol            |-> symbol,
   name              |-> DictGet(data, "name", "N/A"),
   issuer            |-> DictGet(data, "primary_exchange", "N/A"),
   category          |-> DictGet(data, "type", "N/A"),
   description       |-> DictGet(data, "description", ""),
   expense_ratio     |-> None,
   aum               |-> DictGet(data, "market_cap", NA),
   holdings          |-> << >>,
   sector_allocation |-> << >>,
   data_source       |-> "Polygon",
   last_updated      |-> DictGet(data, "last_updated_utc", None)]

_fetch_from_polygon(response, symbol) ==
  IF response.raises THEN None
  ELSE IF response.status_code = 200 /\ "results" \in DOMAIN response.data
  THEN _parse_polygon_data(response.data.results, symbol)
  ELSE None

\* institutional_holders is None or List(rows); every row of a frame has
\* the same columns.  The first 10 rows become holdings.
_get_holdings_from_yfinance(response) ==
  IF response.holders_raise THEN << >>
  ELSE LET institutional_holders == response.institutional_holders
       IN  IF institutional_holders.k = "none" \/ institutional_holders.v = << >>
           THEN << >>
           ELSE LET rows == institutional_holders.v
                    head == SubSeq(rows, 1, IF Len(rows) < 10 THEN Len(rows) ELSE 10)
                IN  [i \in 1..Len(head) |->
                       [ticker       |-> <<"N", "/", "A">>,
                        company_name |-> DictGet(head[i], "Holder", "N/A"),
                        weight       |-> DictGet(head[i], "Shares", Decimal(FALSE, 0, 0)),
                        sector       |-> "N/A",
                        market_value |-> DictGet(head[i], "Value", NA)]]

\* 'technology' in category and 'sp' in category, for the lower-cased
\* categories of the pool
HasTechnology(category) == category \in {"technology"}

HasSp(category) == category \in {"specialty"}

LowerCategory(category) ==
  CASE category = "Technology" -> "technology"
    [] category = "Specialty" -> "specialty"
    [] category = "Large Blend" -> "large blend"
    [] OTHER -> category

TechnologySectors ==
  ("Technology" :> 65) @@ ("Communication Services" :> 15)
    @@ ("Consumer Discretionary" :> 10) @@ ("Healthcare" :> 5) @@ ("Other" :> 5)

MarketSectors(technology, healthcare, financials, discretionary) ==
  ("Technology" :> technology) @@ ("Healthcare" :> healthcare)
    @@ ("Financials" :> financials)
    @@ ("Consumer Discretionary" :> discretionary)
    @@ ("Communication Services" :> 8) @@ ("Industrials" :> 8)
    @@ ("Consumer Staples" :> 6) @@ ("Energy" :> 4) @@ ("Utilities" :> 3)
    @@ ("Real Estate" :> 3) @@ ("Materials" :> 2) @@ ("Other" :> 2)

_get_sector_allocation_from_yfinance(info, symbol) ==
  LET category == LowerCategory(DictGet(info, "category", ""))
  IN  IF \/ HasTechnology(category)
         \/ Upper(symbol) \in {<<"Q", "Q", "Q">>, <<"X", "L", "K">>,
                               <<"A", "R", "K", "K">>}
      THEN TechnologySectors
      ELSE IF \/ HasSp(category)
              \/ Upper(symbol) \in {<<"S", "P", "Y">>, <<"V", "O", "O">>,
                                    <<"I", "V", "V">>}
      THEN MarketSectors(28, 13, 12, 11)
      ELSE IF Upper(symbol) \in {<<"V", "T", "I">>, <<"I", "T", "O", "T">>}
      THEN MarketSectors(25, 14, 13, 12)
      ELSE << >>

\* _format_aum(info.get('totalAssets', info.get('fundInceptionDate')))
FormattedAum(info) ==
  _format_aum(DictGet(info, "totalAssets", DictGet(info, "fundInceptionDate", None)))

\* the pool's info carries no companyOfficers: the issuer is the fund
\* family or 'N/A'
_fetch_from_free_sources(response, symbol) ==
  IF response.raises THEN None
  ELSE LET info == response.info
           hist == response.hist
       IN  IF info = << >> \/ "symbol" \notin DOMAIN info THEN None
           ELSE
             [symbol             |-> symbol,
              name               |-> DictGet(info, "longName",
                                             DictGet(info, "shortName", "N/A")),
              issuer             |-> DictGet(info, "fundFamily", "N/A"),
              category           |-> DictGet(info, "category",
                                             DictGet(info, "fundType", "N/A")),
              description        |-> DictGet(info, "longBusinessSummary",
                                             "ETF data from Yahoo Finance"),
              expense_ratio      |-> DictGet(info, "annualReportExpenseRatio",
                                             DictGet(info, "totalExpenseRatio", None)),
              aum                |-> FormattedAum(info),
              current_price      |-> DictGet(info, "regularMarketPrice",
                                             DictGet(info, "previousClose", None)),
              day_change         |-> DictGet(info, "regularMarketChange", None),
              day_change_percent |-> DictGet(info, "regularMarketChangePercent", None),
              volume             |-> DictGet(info, "regularMarketVolume", None),
              holdings           |-> _get_holdings_from_yfinance(response),
              sector_allocation  |-> _get_sector_allocation_from_yfinance(info, symbol),
              performance_data   |-> IF hist # << >>
                                     THEN _calculate_performance_metrics(hist)
                                     ELSE << >>,
              data_source        |-> "Yahoo Finance",
              last_updated       |-> response.now]

(***************************************************************************)
(* get_popular_etfs: the symbols the service knows without asking.         *)
(***************************************************************************)
get_popular_etfs ==
  <<<<"V", "T", "I">>, <<"V", "O", "O">>, <<"S", "P", "Y">>, <<"Q", "Q", "Q">>,
    <<"A", "R", "K", "K">>, <<"V", "E", "A">>, <<"V", "W", "O">>,
    <<"A", "G", "G">>, <<"V", "N", "Q">>, <<"G", "L", "D">>>>

(***************************************************************************)
(* search_etf.  Its outcomes, one for each way the providers it asks may   *)
(* answer: the responses received, in the order of the requests, and the   *)
(* record returned (None when no provider yields one).                     *)
(***************************************************************************)
Asked(provider, response) == [provider |-> provider, response |-> response]

\* search_etf asking Polygon whenever its key is set, also after Alpha
\* Vantage has yielded a record
SearchWithoutShortCircuit(symbol_or_name) ==
  LET symbol == Upper(Strip(symbol_or_name))
      alpha ==
        IF alpha_vantage_key # ""
        THEN {[responses |-> <<Asked("Alpha Vantage", r)>>,
               etf_data  |-> _fetch_from_alpha_vantage(r, symbol)] :
                r \in AlphaVantageResponses}
        ELSE {[responses |-> << >>, etf_data |-> None]}
      polygon ==
        UNION {IF polygon_key # ""
               THEN {[responses |-> Append(a.responses, Asked("Polygon", r)),
                      etf_data  |-> _fetch_from_polygon(r, symbol)] :
                       r \in PolygonResponses}
               ELSE {a} : a \in alpha}
  IN  UNION {IF p.etf_data = None
             THEN {[responses |-> Append(p.responses, Asked("Yahoo Finance", r)),
                    etf_data  |-> _fetch_from_free_sources(r, symbol)] :
                     r \in YahooResponses}
             ELSE {p} : p \in polygon}

\* search_etf asking Yahoo Finance in every call, also after an earlier
\* provider has yielded a record
SearchAlwaysAskingYahoo(symbol_or_name) ==
  LET symbol == Upper(Strip(symbol_or_name))
      alpha ==
        IF alpha_vantage_key # ""
        THEN {[responses |-> <<Asked("Alpha Vantage", r)>>,
               etf_data  |-> _fetch_from_alpha_vantage(r, symbol)] :
                r \in AlphaVantageResponses}
        ELSE {[responses |-> << >>, etf_data |-> None]}
      polygon ==
        UNION {IF a.etf_data = None /\ polygon_key # ""
               THEN {[responses |-> Append(a.responses, Asked("Polygon", r)),
                      etf_data  |-> _fetch_from_polygon(r, symbol)] :
                       r \in PolygonResponses}
               ELSE {a} : a \in alpha}
  IN  UNION {{[responses |-> Append(p.responses, Asked("Yahoo Finance", r)),
               etf_data  |-> IF p.etf_data = None
                             THEN _fetch_from_free_sources(r, symbol)
                             ELSE p.etf_data] :
                r \in YahooResponses} : p \in polygon}

search_etf(symbol_or_name) ==
  LET symbol == Upper(Strip(symbol_or_name))
      alpha ==
        IF alpha_vantage_key # ""
        THEN {[responses |-> <<Asked("Alpha Vantage", r)>>,
               etf_data  |-> _fetch_from_alpha_vantage(r, symbol)] :
                r \in AlphaVantageResponses}
        ELSE {[responses |-> << >>, etf_data |-> None]}
      polygon ==
        UNION {IF a.etf_data = None /\ polygon_key # ""
               THEN {[responses |-> Append(a.responses, Asked("Polygon", r)),
                      etf_data  |-> _fetch_from_polygon(r, symbol)] :
                       r \in PolygonResponses}
               ELSE {a} : a \in alpha}
  IN  UNION {IF p.etf_data = None
             THEN {[responses |-> Append(p.responses, Asked("Yahoo Finance", r)),
                    etf_data  |-> _fetch_from_free_sources(r, symbol)] :
                     r \in YahooResponses}
             ELSE {p} : p \in polygon}

(***************************************************************************)
(* The caller of the comparison engine.  It uses no provider: the service  *)
(* beside it is constructed without API keys.                              *)
(***************************************************************************)
Init ==
  /\ pc = "idle"
  /\ op = "none"
  /\ args = << >>
  /\ result = None
  /\ raised = "none"
  /\ alpha_vantage_key = ""
  /\ polygon_key = ""

CalculatePortfolioOverlap ==
  /\ pc = "idle"
  /\ \E h1 \in OverlapHoldingsLists \cup PlaceholderHoldingsLists :
       \E h2 \in IF h1 \in PlaceholderHoldingsLists
                 THEN PlaceholderHoldingsLists ELSE OverlapHoldingsLists :
         /\ args' = [holdings1 |-> h1, holdings2 |-> h2]
         /\ result' = calculate_portfolio_overlap(h1, h2)
  /\ raised' = "none"
  /\ op' = "calculate_portfolio_overlap"
  /\ pc' = "returned"
  /\ UNCHANGED keys

FindOverlappingHoldings ==
  /\ pc = "idle"
  /\ \E h1 \in HoldingsLists \cup PlaceholderHoldingsLists :
       \E h2 \in IF h1 \in PlaceholderHoldingsLists
                 THEN PlaceholderHoldingsLists ELSE SecondHoldingsLists :
         /\ args' = [holdings1 |-> h1, holdings2 |-> h2]
         /\ \E outcome \in find_overlapping_holdings(h1, h2) :
              /\ result' = outcome.value
              /\ raised' = outcome.raised
  /\ op' = "find_overlapping_holdings"
  /\ pc' = "returned"
  /\ UNCHANGED keys

CompareSectorAllocations ==
  /\ pc = "idle"
  /\ \E s1 \in SectorAllocations, s2 \in SectorAllocations :
       /\ args' = [sector1 |-> s1, sector2 |-> s2]
       /\ result' = compare_sector_allocations(s1, s2)
  /\ raised' = "none"
  /\ op' = "compare_sector_allocations"
  /\ pc' = "returned"
  /\ UNCHANGED keys

CompareExpenseRatios ==
  /\ pc = "idle"
  /\ \E e1 \in ExpenseRecords, e2 \in ExpenseRecords :
       /\ args' = [etf1_data |-> e1, etf2_data |-> e2]
       /\ result' = compare_expense_ratios(e1, e2)
  /\ raised' = "none"
  /\ op' = "compare_expense_ratios"
  /\ pc' = "returned"
  /\ UNCHANGED keys

ParseAum ==
  /\ pc = "idle"
  /\ \E aum_value \in AumValues :
       /\ args' = [aum_value |-> aum_value]
       /\ result' = _parse_aum(aum_value)
  /\ raised' = "none"
  /\ op' = "_parse_aum"
  /\ pc' = "returned"
  /\ UNCHANGED keys

CompareAum ==
  /\ pc = "idle"
  /\ \E e1 \in AumRecords, e2 \in AumRecords :
       /\ args' = [etf1_data |-> e1, etf2_data |-> e2]
       /\ LET outcome == compare_aum(e1, e2)
          IN  /\ result' = outcome.value
              /\ raised' = outcome.raised
  /\ op' = "compare_aum"
  /\ pc' = "returned"
  /\ UNCHANGED keys

GenerateComparisonSummary ==
  /\ pc = "idle"
  /\ \E e1 \in SummaryRecords, e2 \in SummaryRecords :
       /\ args' = [etf1_data |-> e1, etf2_data |-> e2]
       /\ \E outcome \in generate_comparison_summary(e1, e2) :
            /\ result' = outcome.value
            /\ raised' = outcome.raised
  /\ op' = "generate_comparison_summary"
  /\ pc' = "returned"
  /\ UNCHANGED keys

\* generate_comparison_summary invoked once more on the records of the call
\* that has just returned, in this or in another run of the application
\* (str hashes, and with them the iteration order of a set of strings,
\* change from one process to the next); the outcome of the first call is
\* kept beside the arguments
GenerateComparisonSummaryAgain ==
  /\ pc = "returned"
  /\ op = "generate_comparison_summary"
  /\ "first" \notin DOMAIN args
  /\ args' = With(args, "first", [raised |-> raised, value |-> result])
  /\ \E outcome \in generate_comparison_summary(args.etf1_data, args.etf2_data) :
       /\ result' = outcome.value
       /\ raised' = outcome.raised
  /\ UNCHANGED <<pc, op, keys>>

Return ==
  /\ pc = "returned"
  /\ pc' = "idle"
  /\ op' = "none"
  /\ args' = << >>
  /\ result' = None
  /\ raised' = "none"
  /\ UNCHANGED keys

Next ==
  \/ CalculatePortfolioOverlap
  \/ FindOverlappingHoldings
  \/ CompareSectorAllocations
  \/ CompareExpenseRatios
  \/ ParseAum
  \/ CompareAum
  \/ GenerateComparisonSummary
  \/ Return

Spec == Init /\ [][Next]_vars

\* The comparison page asks for the summary of a pair of records each time
\* it is rendered, in this and in later runs of the application.
SummaryNext ==
  \/ GenerateComparisonSummary
  \/ GenerateComparisonSummaryAgain
  \/ Return

SummarySpec == Init /\ [][SummaryNext]_vars

(***************************************************************************)
(* The caller of the service.  The service is constructed with each API    *)
(* key set or empty, as the environment has it.                            *)
(***************************************************************************)
ServiceInit ==
  /\ pc = "idle"
  /\ op = "none"
  /\ args = << >>
  /\ result = None
  /\ raised = "none"
  /\ alpha_vantage_key \in {"", "key"}
  /\ polygon_key \in {"", "key"}

FormatAum ==
  /\ pc = "idle"
  /\ \E aum_value \in FormatValues :
       /\ args' = [aum_value |-> aum_value]
       /\ result' = _format_aum(aum_value)
  /\ raised' = "none"
  /\ op' = "_format_aum"
  /\ pc' = "returned"
  /\ UNCHANGED keys

SafeFloat ==
  /\ pc = "idle"
  /\ \E value \in SafeFloatValues :
       /\ args' = [value |-> value]
       /\ result' = _safe_float(value)
  /\ raised' = "none"
  /\ op' = "_safe_float"
  /\ pc' = "returned"
  /\ UNCHANGED keys

CalculatePerformanceMetrics ==
  /\ pc = "idle"
  /\ \E hist \in Histories :
       /\ args' = [hist |-> hist]
       /\ result' = _calculate_performance_metrics(hist)
  /\ raised' = "none"
  /\ op' = "_calculate_performance_metrics"
  /\ pc' = "returned"
  /\ UNCHANGED keys

SearchEtf ==
  /\ pc = "idle"
  /\ \E symbol_or_name \in SearchTexts :
       \E outcome \in search_etf(symbol_or_name) :
         /\ args' = [symbol_or_name |-> symbol_or_name,
                     responses |-> outcome.responses]
         /\ result' = outcome.etf_data
  /\ raised' = "none"
  /\ op' = "search_etf"
  /\ pc' = "returned"
  /\ UNCHANGED keys

ServiceNext ==
  \/ FormatAum
  \/ SafeFloat
  \/ CalculatePerformanceMetrics
  \/ SearchEtf
  \/ Return

ServiceSpec == ServiceInit /\ [][ServiceNext]_vars

(***************************************************************************)
(* Two sessions of the application.  get_comparison_utils and              *)
(* get_etf_service are cached resources: every session calls the           *)
(* operations on the same two instances.  Here pc, op, args, result and    *)
(* raised hold one value per session.  A call takes two steps, so that the *)
(* calls of the sessions interleave: it is entered with its records, then  *)
(* it computes and returns.                                                *)
(***************************************************************************)
Sessions == {1, 2}

\* VTI with holdings, sectors, expense ratio 0.03 and "$10B"; VOO with
\* expense ratio 0.07 and "$5B"; VOO with nothing else known
SessionRecords ==
  {[symbol |-> "VTI",
    holdings |-> List(<<[ticker |-> <<"a", "b">>, weight |-> 2],
                        [ticker |-> <<"C">>, weight |-> 7]>>),
    sector_allocation |-> Dict(("Technology" :> 28)),
    expense_ratio |-> Num(3000),
    aum |-> Text(<<"$", "1", "0", "B">>)],
   [symbol |-> "VOO", expense_ratio |-> Num(7000),
    aum |-> Text(<<"$", "5", "B">>)],
   [symbol |-> "VOO"]}

SessionOperations ==
  {"compare_expense_ratios", "compare_aum", "generate_comparison_summary"}

\* the outcomes of the operation on the two records
Invoke(operation, records) ==
  CASE operation = "compare_expense_ratios" ->
         {Returned(compare_expense_ratios(records.etf1_data, records.etf2_data))}
    [] operation = "compare_aum" ->
         {compare_aum(records.etf1_data, records.etf2_data)}
    [] operation = "generate_comparison_summary" ->
         generate_comparison_summary(records.etf1_data, records.etf2_data)

\* the records a call works on, were they kept in a field of the shared
\* instance: the records of the call entered last (here: of session 2
\* whenever it is inside a call)
RecordsOfSharedInstance(session) ==
  IF pc[2] = "called" THEN args[2] ELSE args[session]

\* the records a call works on: its own parameters
Arguments(session) == args[session]

SessionsInit ==
  /\ pc = [s \in Sessions |-> "idle"]
  /\ op = [s \in Sessions |-> "none"]
  /\ args = [s \in Sessions |-> << >>]
  /\ result = [s \in Sessions |-> None]
  /\ raised = [s \in Sessions |-> "none"]
  /\ alpha_vantage_key \in {"", "key"}
  /\ polygon_key \in {"", "key"}

SessionCall(s) ==
  /\ pc[s] = "idle"
  /\ \E operation \in SessionOperations, e1 \in SessionRecords, e2 \in SessionRecords :
       /\ op' = [op EXCEPT ![s] = operation]
       /\ args' = [args EXCEPT ![s] = [etf1_data |-> e1, etf2_data |-> e2]]
  /\ pc' = [pc EXCEPT ![s] = "called"]
  /\ UNCHANGED <<result, raised, keys>>

SessionComplete(s) ==
  /\ pc[s] = "called"
  /\ \E outcome \in Invoke(op[s], Arguments(s)) :
       /\ result' = [result EXCEPT ![s] = outcome.value]
       /\ raised' = [raised EXCEPT ![s] = outcome.raised]
  /\ pc' = [pc EXCEPT ![s] = "returned"]
  /\ UNCHANGED <<op, args, keys>>

SessionReturn(s) ==
  /\ pc[s] = "returned"
  /\ pc' = [pc EXCEPT ![s] = "idle"]
  /\ op' = [op EXCEPT ![s] = "none"]
  /\ args' = [args EXCEPT ![s] = << >>]
  /\ result' = [result EXCEPT ![s] = None]
  /\ raised' = [raised EXCEPT ![s] = "none"]
  /\ UNCHANGED keys

SessionsNext ==
  \E s \in Sessions :
    \/ SessionCall(s)
    \/ SessionComplete(s)
    \/ SessionReturn(s)

SessionsSpec == SessionsInit /\ [][SessionsNext]_vars

(***************************************************************************)
(* The comparison page (show_comparison_page in src/app.py).  Pressing     *)
(* Compare runs the handler: with both symbols entered it searches the     *)
(* first ETF, then the second, and then either displays the comparison,    *)
(* which invokes generate_comparison_summary on the two records, or shows  *)
(* an error for each ETF not found.  args holds the two texts entered, the *)
(* calls made so far and the records found; result holds what is shown.    *)
(***************************************************************************)
\* "vti", a blank text and the empty text
PageTexts == {<<"v", "t", "i">>, <<" ">>, << >>}

Call(operation, argument) == [operation |-> operation, argument |-> argument]

Message(kind, text) == [kind |-> kind, text |-> text]

\* 'if etf1_data or etf2_data'
EitherFound(etf1_data, etf2_data) == etf1_data # None \/ etf2_data # None

\* 'if etf1_data and etf2_data': a record is a dict with keys, so it is
\* true; None is false
BothFound(etf1_data, etf2_data) == etf1_data # None /\ etf2_data # None

PageInit ==
  /\ pc = "idle"
  /\ op = "none"
  /\ args = << >>
  /\ result = None
  /\ raised = "none"
  /\ alpha_vantage_key \in {"", "key"}
  /\ polygon_key \in {"", "key"}

\* compare_button: with both texts entered the first search is made; with
\* one missing a warning is shown
PressCompare ==
  /\ pc = "idle"
  /\ \E etf1_symbol \in PageTexts, etf2_symbol \in PageTexts :
       IF etf1_symbol # << >> /\ etf2_symbol # << >>
       THEN \E outcome \in search_etf(etf1_symbol) :
              /\ args' = [etf1_symbol |-> etf1_symbol, etf2_symbol |-> etf2_symbol,
                          calls |-> <<Call("search_etf", etf1_symbol)>>,
                          etf1_data |-> outcome.etf_data]
              /\ result' = [shown |-> << >>]
              /\ pc' = "searching"
       ELSE /\ args' = [etf1_symbol |-> etf1_symbol, etf2_symbol |-> etf2_symbol,
                        calls |-> << >>]
            /\ result' = [shown |->
                           <<Message("warning",
                                     "Please enter both ETF symbols to compare.")>>]
            /\ pc' = "returned"
  /\ op' = "show_comparison_page"
  /\ raised' = "none"
  /\ UNCHANGED keys

\* etf2_data = etf_service.search_etf(etf2_symbol)
SearchSecond ==
  /\ pc = "searching"
  /\ \E outcome \in search_etf(args.etf2_symbol) :
       args' = With(With(args, "etf2_data", outcome.etf_data), "calls",
                    Append(args.calls, Call("search_etf", args.etf2_symbol)))
  /\ pc' = "searched"
  /\ UNCHANGED <<op, result, raised, keys>>

\* the comparison is displayed, which invokes generate_comparison_summary
\* on the two records (what it returns is then rendered), or an error is
\* shown for each ETF not found
DisplayOrReport ==
  /\ pc = "searched"
  /\ IF BothFound(args.etf1_data, args.etf2_data)
     THEN /\ args' = With(args, "calls",
                          Append(args.calls,
                                 Call("generate_comparison_summary",
                                      <<args.etf1_data, args.etf2_data>>)))
          /\ result' = [shown |-> <<Message("comparison", "")>>]
     ELSE /\ args' = args
          /\ result' =
               [shown |->
                  (IF args.etf1_data = None
                   THEN <<Message("error", args.etf1_symbol)>> ELSE << >>)
                  \o (IF args.etf2_data = None
                      THEN <<Message("error", args.etf2_symbol)>> ELSE << >>)]
  /\ pc' = "returned"
  /\ UNCHANGED <<op, raised, keys>>

PageNext ==
  \/ PressCompare
  \/ SearchSecond
  \/ DisplayOrReport
  \/ Return

PageSpec == PageInit /\ [][PageNext]_vars

(***************************************************************************)
(* Properties of the holdings operations.                                  *)
(***************************************************************************)
\* the upper-cased tickers of a holdings list, read off the list itself
TickersOf(holdings) ==
  {Upper(holdings[i].ticker) :
     i \in {j \in 1..Len(holdings) : "ticker" \in DOMAIN holdings[j]}}

\* the first holding of the list whose ticker is t, case-insensitively
FirstHolding(holdings, t) ==
  holdings[Min({i \in 1..Len(holdings) :
                  "ticker" \in DOMAIN holdings[i] /\ Upper(holdings[i].ticker) = t})]

\* a >= b on floats: false when either is NaN
FGe(a, b) == IsNum(a) /\ IsNum(b) /\ a.v >= b.v

OverlapReturned == pc = "returned" /\ op = "calculate_portfolio_overlap"

FindReturned == pc = "returned" /\ op = "find_overlapping_holdings"

\* C1: calculate_portfolio_overlap(h1, h2) is |T1 n T2| / |T1 u T2| x 100
\* rounded to 2 decimals, T1 and T2 the upper-cased ticker sets; it is 0.0
\* when a list is empty or has no ticker field; it lies in 0..100.
C1_OverlapIsJaccardPercentage ==
  OverlapReturned =>
    LET T1 == TickersOf(args.holdings1)
        T2 == TickersOf(args.holdings2)
    IN  /\ result = IF T1 = {} \/ T2 = {} THEN 0
                    ELSE RoundHalfEven(10000 * Cardinality(T1 \cap T2),
                                       Cardinality(T1 \cup T2))
        /\ result \in 0..10000

\* one ticker in common out of three, through a difference of case: 33.33
C1_Witness ==
  /\ OverlapReturned
  /\ result = 3333
  /\ \E i \in 1..Len(args.holdings1), j \in 1..Len(args.holdings2) :
       /\ args.holdings1[i].ticker # args.holdings2[j].ticker
       /\ Upper(args.holdings1[i].ticker) = Upper(args.holdings2[j].ticker)

\* C2: calculate_portfolio_overlap is symmetric: the value returned for
\* (h1, h2) is the value the operation gives for (h2, h1).
C2_OverlapSymmetric ==
  OverlapReturned =>
    result = calculate_portfolio_overlap(args.holdings2, args.holdings1)

\* lists of different lengths and different ticker sets, partly overlapping
C2_Witness ==
  /\ OverlapReturned
  /\ Len(args.holdings1) = 1
  /\ Len(args.holdings2) = 2
  /\ result = 5000

\* C3: find_overlapping_holdings returns exactly one entry per ticker of the
\* case-insensitive intersection (none when a list is empty or has no ticker
\* field), in non-increasing order of weight_difference.
C3_OneEntryPerTickerSortedDescending ==
  FindReturned =>
    LET common == TickersOf(args.holdings1) \cap TickersOf(args.holdings2)
    IN  /\ raised = "none"
        /\ Len(result) = Cardinality(common)
        /\ {result[n].ticker : n \in 1..Len(result)} = common
        /\ \A n \in 1..Len(result) - 1 :
             FGe(result[n].weight_difference, result[n + 1].weight_difference)

\* C4: every ticker of the intersection has an entry; the entry's
\* weight_etf1 and weight_etf2 are the weights of the first holding with
\* that ticker on each side, and weight_difference is the absolute
\* difference of the two.  (What an entry holds for a first holding that
\* has no weight is C5's subject.)
C4_FirstOccurrenceWeights ==
  (FindReturned /\ raised = "none") =>
    /\ TickersOf(args.holdings1) \cap TickersOf(args.holdings2)
         \subseteq {result[n].ticker : n \in 1..Len(result)}
    /\ \A n \in 1..Len(result) :
         LET e == result[n]
             first1 == FirstHolding(args.holdings1, e.ticker)
             first2 == FirstHolding(args.holdings2, e.ticker)
         IN  /\ "weight" \in DOMAIN first1 => e.weight_etf1 = Num(first1.weight)
             /\ "weight" \in DOMAIN first2 => e.weight_etf2 = Num(first2.weight)
             /\ e.weight_difference = FAbs(FSub(e.weight_etf1, e.weight_etf2))
             /\ ("weight" \in DOMAIN first1 /\ "weight" \in DOMAIN first2) =>
                  e.weight_difference = Num(Abs(first1.weight - first2.weight))

\* the first list holds one ticker twice with different weights, and the
\* entry took its weight from the first of them
C4_Witness ==
  /\ FindReturned
  /\ raised = "none"
  /\ \E n \in 1..Len(result), i, j \in 1..Len(args.holdings1) :
       /\ i < j
       /\ Upper(args.holdings1[i].ticker) = result[n].ticker
       /\ Upper(args.holdings1[j].ticker) = result[n].ticker
       /\ "weight" \in DOMAIN args.holdings1[i]
       /\ "weight" \in DOMAIN args.holdings1[j]
       /\ args.holdings1[i].weight # args.holdings1[j].weight
       /\ result[n].weight_etf1 = Num(args.holdings1[i].weight)

\* C5: a matched holding without a weight counts as weight 0: its
\* weight_etfN is 0 and weight_difference is computed with 0 in its place,
\* whether or not other holdings of the same list have weights.
C5_MissingWeightIsZero ==
  (FindReturned /\ raised = "none") =>
    \A n \in 1..Len(result) :
      LET e == result[n]
          first1 == FirstHolding(args.holdings1, e.ticker)
          first2 == FirstHolding(args.holdings2, e.ticker)
          w1 == IF "weight" \in DOMAIN first1 THEN first1.weight ELSE 0
          w2 == IF "weight" \in DOMAIN first2 THEN first2.weight ELSE 0
      IN  /\ "weight" \notin DOMAIN first1 => e.weight_etf1 = Num(0)
          /\ "weight" \notin DOMAIN first2 => e.weight_etf2 = Num(0)
          /\ e.weight_difference = Num(Abs(w1 - w2))

(***************************************************************************)
(* Properties of the sector comparison.                                    *)
(***************************************************************************)
SectorReturned == pc = "returned" /\ op = "compare_sector_allocations"

\* the weight of a sector in an allocation, 0 when it is absent
WeightIn(allocation, sector) ==
  IF sector \in DOMAIN allocation THEN allocation[sector] ELSE 0

\* the sum of |w1 - w2| over the sectors SectorNames[1..i] that are in the
\* union of the key sets
RECURSIVE SumOfDifferences(_, _, _)
SumOfDifferences(s1, s2, i) ==
  IF i = 0 THEN 0
  ELSE (IF SectorNames[i] \in DOMAIN s1 \cup DOMAIN s2
        THEN Abs(WeightIn(s1, SectorNames[i]) - WeightIn(s2, SectorNames[i]))
        ELSE 0)
       + SumOfDifferences(s1, s2, i - 1)

\* C6: for allocations that are not both empty, similarity_score is
\* max(0, 100 - D) rounded to 2 decimals, D the sum of |w1 - w2| over the
\* union of the key sets divided by the size of the union.
C6_SimilarityScoreFormula ==
  (SectorReturned /\ DOMAIN args.sector1 \cup DOMAIN args.sector2 # {}) =>
    LET n == Cardinality(DOMAIN args.sector1 \cup DOMAIN args.sector2)
        total == SumOfDifferences(args.sector1, args.sector2, Len(SectorNames))
    IN  /\ "similarity_score" \in DOMAIN result
        /\ result.similarity_score =
             IF total > 100 * n THEN 0
             ELSE RoundHalfEven(100 * (100 * n - total), n)

\* an average difference above 100 (a leveraged weight against none): the
\* score is floored at 0
C6_Witness ==
  /\ SectorReturned
  /\ DOMAIN args.sector1 \cup DOMAIN args.sector2 # {}
  /\ SumOfDifferences(args.sector1, args.sector2, Len(SectorNames))
       > 100 * Cardinality(DOMAIN args.sector1 \cup DOMAIN args.sector2)
  /\ result.similarity_score = 0

\* C7 as stated: for every sector allocation s, compare_sector_allocations
\* (s, s) has similarity_score 100.0.
C7_IdenticalInputScores100 ==
  (SectorReturned /\ args.sector1 = args.sector2) =>
    /\ "similarity_score" \in DOMAIN result
    /\ result.similarity_score = 10000

\* C7 as amended: for every non-empty sector allocation s,
\* compare_sector_allocations(s, s) has similarity_score 100.0; for the
\* empty allocation the result is the empty dict, with no score.
C7_IdenticalNonEmptyInputScores100 ==
  (SectorReturned /\ args.sector1 = args.sector2) =>
    IF DOMAIN args.sector1 = {}
    THEN result = << >>
    ELSE /\ "similarity_score" \in DOMAIN result
         /\ result.similarity_score = 10000

C7_Witness ==
  /\ SectorReturned
  /\ args.sector1 = args.sector2
  /\ Cardinality(DOMAIN args.sector1) = 2
  /\ \E s \in DOMAIN args.sector1 : args.sector1[s] # 0
  /\ result.similarity_score = 10000

\* the fraction f equals num / den (den > 0)
FractionIs(f, num, den) == f.num * den = num * f.den

Max3(a, b, c) == Max2(Max2(a, b), c)

\* C8 as stated: for every sector of the union, etf1_weight and etf2_weight
\* are the two weights (0 when absent), difference is |w1 - w2| and
\* relative_difference is difference / max(w1, w2, 1) x 100, for all
\* weights.
C8_SectorEntryFormula ==
  (SectorReturned /\ DOMAIN args.sector1 \cup DOMAIN args.sector2 # {}) =>
    /\ DOMAIN result.sector_comparison = DOMAIN args.sector1 \cup DOMAIN args.sector2
    /\ \A s \in DOMAIN result.sector_comparison :
         LET w1 == WeightIn(args.sector1, s)
             w2 == WeightIn(args.sector2, s)
             e == result.sector_comparison[s]
         IN  /\ e.etf1_weight = w1
             /\ e.etf2_weight = w2
             /\ e.difference = Abs(w1 - w2)
             /\ FractionIs(e.relative_difference, Abs(w1 - w2) * 100, Max3(w1, w2, 1))

\* C8 as amended: the same, with relative_difference equal to
\* difference / max(w1, w2, 1) x 100 when max(w1, w2) > 0 and equal to 0
\* when max(w1, w2) <= 0.
C8_SectorEntryFormulaGuarded ==
  (SectorReturned /\ DOMAIN args.sector1 \cup DOMAIN args.sector2 # {}) =>
    /\ DOMAIN result.sector_comparison = DOMAIN args.sector1 \cup DOMAIN args.sector2
    /\ \A s \in DOMAIN result.sector_comparison :
         LET w1 == WeightIn(args.sector1, s)
             w2 == WeightIn(args.sector2, s)
             e == result.sector_comparison[s]
         IN  /\ e.etf1_weight = w1
             /\ e.etf2_weight = w2
             /\ e.difference = Abs(w1 - w2)
             /\ IF Max2(w1, w2) > 0
                THEN FractionIs(e.relative_difference,
                                Abs(w1 - w2) * 100, Max3(w1, w2, 1))
                ELSE FractionIs(e.relative_difference, 0, 1)

\* a sector whose larger weight is not positive while the weights differ:
\* relative_difference is 0
C8_Witness ==
  /\ SectorReturned
  /\ \E s \in DOMAIN args.sector1 \cup DOMAIN args.sector2 :
       /\ Max2(WeightIn(args.sector1, s), WeightIn(args.sector2, s)) <= 0
       /\ WeightIn(args.sector1, s) # WeightIn(args.sector2, s)
       /\ result.sector_comparison[s].difference > 0
       /\ result.sector_comparison[s].relative_difference.num = 0

(***************************************************************************)
(* Properties of the expense ratio comparison.                             *)
(***************************************************************************)
ExpenseReturned == pc = "returned" /\ op = "compare_expense_ratios"

\* a record's expense ratio: None when the key is missing
ExpenseOf(etf_data) ==
  IF "expense_ratio" \in DOMAIN etf_data THEN etf_data.expense_ratio ELSE None

BothExpensesKnown ==
  ExpenseOf(args.etf1_data) # None /\ ExpenseOf(args.etf2_data) # None

\* C9 as stated: cheaper_etf is the symbol of the record with the lower
\* expense ratio, and etf1's symbol when the two ratios are equal.
C9_CheaperEtfTiesToFirst ==
  (ExpenseReturned /\ BothExpensesKnown) =>
    LET e1 == ExpenseOf(args.etf1_data).v
        e2 == ExpenseOf(args.etf2_data).v
    IN  /\ e1 < e2 => result.cheaper_etf = Str(args.etf1_data.symbol)
        /\ e2 < e1 => result.cheaper_etf = Str(args.etf2_data.symbol)
        /\ e1 = e2 => result.cheaper_etf = Str(args.etf1_data.symbol)

\* C9 as amended: cheaper_etf is the symbol of the record with the lower
\* expense ratio, and etf2's symbol when the two ratios are equal.
C9_CheaperEtfTiesToSecond ==
  (ExpenseReturned /\ BothExpensesKnown) =>
    LET e1 == ExpenseOf(args.etf1_data).v
        e2 == ExpenseOf(args.etf2_data).v
    IN  /\ e1 < e2 => result.cheaper_etf = Str(args.etf1_data.symbol)
        /\ e2 < e1 => result.cheaper_etf = Str(args.etf2_data.symbol)
        /\ e1 = e2 => result.cheaper_etf = Str(args.etf2_data.symbol)

\* equal ratios on two different funds: the second fund is named
C9_Witness ==
  /\ ExpenseReturned
  /\ BothExpensesKnown
  /\ ExpenseOf(args.etf1_data) = ExpenseOf(args.etf2_data)
  /\ args.etf1_data.symbol # args.etf2_data.symbol
  /\ result.cheaper_etf = Str(args.etf2_data.symbol)

\* C10: difference, cheaper_etf and savings_basis_points are null when
\* either expense_ratio is null or missing; otherwise difference is
\* |e1 - e2| rounded to 4 decimals and savings_basis_points is difference
\* x 100 rounded to 2 decimals (the same number whether "difference" is
\* read before or after its rounding).
C10_NullsOrRoundedDifference ==
  ExpenseReturned =>
    IF BothExpensesKnown
    THEN LET d == Abs(ExpenseOf(args.etf1_data).v - ExpenseOf(args.etf2_data).v)
         IN  /\ result.difference = Num(RoundHalfEven(d, 10))
             /\ result.savings_basis_points = Num(RoundHalfEven(d * 100, 1000))
             /\ result.savings_basis_points =
                  Num(RoundHalfEven(result.difference.v * 1000, 1000))
    ELSE /\ result.difference = None
         /\ result.cheaper_etf = None
         /\ result.savings_basis_points = None

\* 0.09457 against 0.03: the difference 0.06457 is rounded up to 0.0646
C10_Witness ==
  /\ ExpenseReturned
  /\ BothExpensesKnown
  /\ Abs(ExpenseOf(args.etf1_data).v - ExpenseOf(args.etf2_data).v) = 6457
  /\ result.difference = Num(646)
  /\ result.savings_basis_points = Num(646)

(***************************************************************************)
(* Properties of compare_aum.  The amounts of the compared records, read   *)
(* off the texts in units of ten million dollars.                          *)
(***************************************************************************)
AumReturned == pc = "returned" /\ op = "compare_aum" /\ raised = "none"

AumOf(etf_data) == DictGet(etf_data, "aum", None)

\* the aum texts and numbers that are amounts
TenMillions(aum) ==
  CASE aum = Text(<<"$", "1", "0", "B">>) -> 1000
    [] aum = Text(<<"$", "5", "B">>) -> 500
    [] aum = Decimal(FALSE, 5, 9) -> 500
    [] aum = Text(<<"$", "1", ".", "5", "0", "B">>) -> 150
    [] aum = Text(<<"7", "5", "0", "M">>) -> 75
    [] aum = Text(<<"-", "5", "B">>) -> -500
    [] aum = Text(<<"$", "0">>) -> 0

\* None, "N/A" and "abc" are not
IsAmount(aum) ==
  aum \notin {None, Text(<<"N", "/", "A">>), Text(<<"a", "b", "c">>)}

BothAmounts == IsAmount(AumOf(args.etf1_data)) /\ IsAmount(AumOf(args.etf2_data))

C12_NullsOrSizeRatio ==
  (pc = "returned" /\ op = "compare_aum") =>
    IF ~BothAmounts
    THEN /\ raised = "none"
         /\ result.larger_etf = None
         /\ result.size_ratio = None
         /\ result.etf1_aum = AumOf(args.etf1_data)
         /\ result.etf2_aum = AumOf(args.etf2_data)
    ELSE raised = "none" =>
           LET a1 == TenMillions(AumOf(args.etf1_data))
               a2 == TenMillions(AumOf(args.etf2_data))
               hi == IF a1 > a2 THEN a1 ELSE a2
               lo == IF a1 < a2 THEN a1 ELSE a2
               n == IF lo < 0 THEN -hi * 100 ELSE hi * 100
           IN  /\ lo # 0
               /\ result.size_ratio = Num(RoundHalfEven(n, Abs(lo)))

\* "$1.50B" against "$10B": 6.666... is rounded to 6.67
C12_Witness ==
  /\ AumReturned
  /\ AumOf(args.etf1_data) = Text(<<"$", "1", ".", "5", "0", "B">>)
  /\ AumOf(args.etf2_data) = Text(<<"$", "1", "0", "B">>)
  /\ result.size_ratio = Num(667)

(***************************************************************************)
(* Properties of _parse_aum.  The numbers written by the number texts of   *)
(* the pool, and the power of ten of each suffix.                          *)
(***************************************************************************)
ParseReturned == pc = "returned" /\ op = "_parse_aum"

NumberWritten(n) ==
  CASE n = <<"1", ".", "5", "0">> -> Decimal(FALSE, 150, -2)
    [] n = <<"7", "5", "0">> -> Decimal(FALSE, 750, 0)
    [] n = <<"1", ",", "5", "0", "0">> -> Decimal(FALSE, 1500, 0)
    [] n = <<"-", "2", ".", "5">> -> Decimal(TRUE, 25, -1)
    [] n = <<"0">> -> Decimal(FALSE, 0, 0)

SuffixPower(s) ==
  CASE s \in {<<"B">>, <<"b">>} -> 9
    [] s \in {<<"M">>, <<"m">>} -> 6
    [] s \in {<<"K">>, <<"k">>} -> 3
    [] s = << >> -> 0

\* C14: _parse_aum maps None and "N/A" to None, returns a number as it is,
\* and for a text of the form [$]number[suffix] returns the number times
\* 1e9, 1e6 or 1e3 for the suffix B, M or K in either case (times 1 without
\* a suffix), with its sign; "$1.50B" gives 1500000000, "750M" gives
\* 750000000 and 42.0 gives 42.0
C14_ParseAumScalesBySuffix ==
  ParseReturned =>
    LET x == args.aum_value
    IN  /\ (x = None \/ x = Text(<<"N", "/", "A">>)) => result = None
        /\ x \in AumNumbers => result = x
        /\ \A p \in AumPrefixes, n \in AumNumberTexts, s \in AumSuffixes :
             x = Text(p \o n \o s) =>
               result = Decimal(NumberWritten(n).neg,
                                NumberWritten(n).v,
                                NumberWritten(n).e + SuffixPower(s))
        /\ x = Text(<<"$", "1", ".", "5", "0", "B">>) =>
             result = Decimal(FALSE, 1500000000, 0)
        /\ x = Text(<<"7", "5", "0", "M">>) =>
             result = Decimal(FALSE, 750000000, 0)
        /\ x = Decimal(FALSE, 42, 0) => result = Decimal(FALSE, 42, 0)

\* "$-2.5m": the sign is kept and the lower-case suffix scales by 1e6
C14_Witness ==
  /\ ParseReturned
  /\ args.aum_value = Text(<<"$", "-", "2", ".", "5", "m">>)
  /\ result = Decimal(TRUE, 2500000, 0)

\* C15: _parse_aum raises nothing; it returns a number or None, and None for
\* every text that is not an amount (the empty text, a lone suffix, text
\* that is no number) and for every value that is neither text nor number
C15_ParseAumNeverRaises ==
  ParseReturned =>
    /\ raised = "none"
    /\ result = None \/ IsNum(result)
    /\ (IsText(args.aum_value) /\ args.aum_value.v \in MalformedTexts) =>
         result = None
    /\ args.aum_value = Other => result = None

\* the lone suffix "B": nothing is left to parse, the result is None
C15_Witness ==
  /\ ParseReturned
  /\ args.aum_value = Text(<<"B">>)
  /\ result = None
  /\ raised = "none"

(***************************************************************************)
(* Properties of generate_comparison_summary.                              *)
(***************************************************************************)
SummaryCalled == pc = "returned" /\ op = "generate_comparison_summary"

\* the record has no holdings to compare: missing, None or empty
NoHoldings(etf_data) == Not(DictGet(etf_data, "holdings", None))

\* C13: for every pair of records generate_comparison_summary raises
\* nothing and returns the five sub-results; holdings that are missing,
\* None or empty give the overlap 0 and no overlapping holdings, and an aum
\* that is None, no amount or zero gives the null fields
C13_SummaryNeverRaises ==
  SummaryCalled =>
    /\ raised = "none"
    /\ {"portfolio_overlap", "sector_comparison", "expense_ratio_comparison",
        "aum_comparison", "overlapping_holdings"} \subseteq DOMAIN result
    /\ (NoHoldings(args.etf1_data) \/ NoHoldings(args.etf2_data)) =>
         /\ result.portfolio_overlap = 0
         /\ result.overlapping_holdings = << >>
    /\ (\E e \in {args.etf1_data, args.etf2_data} :
          AumOf(e) \in {None, Text(<<"a", "b", "c">>), Text(<<"$", "0">>)}) =>
         /\ result.aum_comparison.larger_etf = None
         /\ result.aum_comparison.size_ratio = None

(***************************************************************************)
(* Properties of _format_aum.  The display of each total of the pool.      *)
(***************************************************************************)
FormatReturned == pc = "returned" /\ op = "_format_aum"

ExpectedDisplay(total) ==
  CASE total = Decimal(FALSE, 1, 10) -> <<"$", "1", "0", ".", "0", "0", "B">>
    [] total = Decimal(FALSE, 15, 8) -> <<"$", "1", ".", "5", "0", "B">>
    [] total = Decimal(FALSE, 1, 9) -> <<"$", "1", ".", "0", "0", "B">>
    [] total = Decimal(FALSE, 999999999, 0) ->
         <<"$", "1", "0", "0", "0", ".", "0", "0", "M">>
    [] total = Decimal(FALSE, 75, 7) -> <<"$", "7", "5", "0", ".", "0", "0", "M">>
    [] total = Decimal(FALSE, 1, 6) -> <<"$", "1", ".", "0", "0", "M">>
    [] total = Decimal(FALSE, 999999, 0) ->
         <<"$", "1", "0", "0", "0", ".", "0", "0", "K">>
    [] total = Decimal(FALSE, 1234, 0) -> <<"$", "1", ".", "2", "3", "K">>
    [] total = Decimal(FALSE, 1236, 0) -> <<"$", "1", ".", "2", "4", "K">>
    [] total = Decimal(FALSE, 1, 3) -> <<"$", "1", ".", "0", "0", "K">>
    [] total = Decimal(FALSE, 99999, -2) -> <<"$", "9", "9", "9", ".", "9", "9">>
    [] total = Decimal(FALSE, 999996, -3) ->
         <<"$", "1", "0", "0", "0", ".", "0", "0">>
    [] total = Decimal(FALSE, 42, 0) -> <<"$", "4", "2", ".", "0", "0">>
    [] total = Decimal(FALSE, 0, 0) -> <<"$", "0", ".", "0", "0">>
    [] total = Decimal(TRUE, 525, -2) -> <<"$", "-", "5", ".", "2", "5">>

\* C16: for every display text x that _format_aum makes of a numeric total,
\* _format_aum(_parse_aum(x)) is x again, also for totals just below a
\* scale such as 999,999,999
C16_FormatInvertsParse ==
  (FormatReturned /\ args.aum_value \in FormatTotals) =>
    _format_aum(_parse_aum(result)) = result

\* C17: _format_aum raises nothing and renders a numeric total by its
\* scale: in billions with the suffix B from 1e9 on, else in millions with
\* M from 1e6 on, else in thousands with K from 1e3 on, else as it is, each
\* with "$" and 2 decimals
C17_FormatAumByScale ==
  FormatReturned =>
    /\ raised = "none"
    /\ IsText(result)
    /\ args.aum_value \in FormatTotals =>
         result = Text(ExpectedDisplay(args.aum_value))

\* 1,500,000,000 is displayed as "$1.50B"
C17_Witness ==
  /\ FormatReturned
  /\ args.aum_value = Decimal(FALSE, 1500000000, 0)
  /\ result = Text(<<"$", "1", ".", "5", "0", "B">>)

(***************************************************************************)
(* Properties of _safe_float.                                              *)
(***************************************************************************)
SafeFloatReturned == pc = "returned" /\ op = "_safe_float"

\* the number each well-formed value of the pool stands for; None for the
\* malformed and the absent ones
ExpectedFloat(value) ==
  CASE IsNum(value) -> value
    [] value \in {Text(<<"0", ".", "0", "3">>), Text(<<"0", ".", "0", "3", "%">>)} ->
         Decimal(FALSE, 3, -2)
    [] value \in {Text(<<"0">>), Text(<<"0", "%">>)} -> Decimal(FALSE, 0, 0)
    [] value = Text(<<" ", "0", ".", "5", " ">>) -> Decimal(FALSE, 5, -1)
    [] OTHER -> None

\* C18: _safe_float raises nothing; it returns the number of every
\* well-formed value, a trailing '%' stripped, also for a zero expense
\* ratio given as the number 0, as "0" or as "0%", and None for every
\* malformed or absent value
C18_SafeFloatOfWellFormed ==
  SafeFloatReturned =>
    /\ raised = "none"
    /\ result = ExpectedFloat(args.value)

(***************************************************************************)
(* Properties of _calculate_performance_metrics.                           *)
(***************************************************************************)
MetricsReturned == pc = "returned" /\ op = "_calculate_performance_metrics"

\* r is n / d rounded to the nearest unit, for d > 0
Nearest(r, n, d) == r.k = "num" /\ 2 * Abs(n - r.v * d) <= d

\* C19: _calculate_performance_metrics returns the empty mapping for an
\* empty series; otherwise 52_week_high is the greatest high and
\* 52_week_low the least low, 1_year_return is (last close - first close)
\* / first close x 100 and current_vs_52w_high is (last close - 52_week_high)
\* / 52_week_high x 100, each rounded to 2 decimals
C19_PerformanceMetrics ==
  MetricsReturned =>
    LET hist == args.hist
    IN  IF hist = << >> THEN result = << >>
        ELSE
          LET first == hist[1].Close
              last == hist[Len(hist)].Close
              highs == {hist[i].High : i \in 1..Len(hist)}
              lows == {hist[i].Low : i \in 1..Len(hist)}
          IN  /\ \E high \in highs :
                   /\ \A h \in highs : h <= high
                   /\ Nearest(result["52_week_high"], high, 10)
                   /\ high # 0 =>
                        Nearest(result["current_vs_52w_high"],
                                (last - high) * 10000, high)
              /\ \E low \in lows :
                   /\ \A l \in lows : low <= l
                   /\ Nearest(result["52_week_low"], low, 10)
              /\ first # 0 =>
                   Nearest(result["1_year_return"], (last - first) * 10000, first)

\* closes from 0.003 to 0.017: the return 466.666... is rounded to 466.67
C19_Witness ==
  /\ MetricsReturned
  /\ Len(args.hist) = 2
  /\ args.hist[1].Close = 3
  /\ args.hist[2].Close = 17
  /\ result["1_year_return"] = Num(46667)
  /\ result["52_week_high"] = Num(2)

(***************************************************************************)
(* Properties of search_etf.                                               *)
(***************************************************************************)
SearchReturned == pc = "returned" /\ op = "search_etf"

\* x is a finite number, a text other than "N/A", or None
NumberOrNull(x) == x.k \notin {"nan", "inf"} /\ x # NA

\* C20: in every record search_etf returns, each numeric field is a finite
\* number or null or absent: never NaN or infinite, never the text "N/A"
C20_NumericFieldsFiniteOrNull ==
  (SearchReturned /\ result # None) =>
    /\ \A field \in {"expense_ratio", "aum", "current_price", "day_change",
                     "day_change_percent", "volume"} \cap DOMAIN result :
         NumberOrNull(result[field])
    /\ \A i \in 1..Len(result.holdings) :
         /\ NumberOrNull(result.holdings[i].weight)
         /\ NumberOrNull(result.holdings[i].market_value)
    /\ "performance_data" \in DOMAIN result =>
         \A metric \in DOMAIN result.performance_data :
           NumberOrNull(result.performance_data[metric])

\* C21 (as stated): every record search_etf returns, from whichever provider
\* and for any input text, the empty and the blank ones included, has a
\* symbol that is non-empty and upper-cased
C21_SymbolNonEmptyUpperCased ==
  (SearchReturned /\ result # None) =>
    /\ result.symbol # << >>
    /\ \A i \in 1..Len(result.symbol), j \in 1..26 :
         result.symbol[i] # LowerChars[j]

\* the symbol search_etf asks the providers for
SearchSymbol == Upper(Strip(args.symbol_or_name))

\* the rank of the i-th provider asked, in the order Alpha Vantage, Polygon,
\* Yahoo Finance
Priority(i) ==
  CASE args.responses[i].provider = "Alpha Vantage" -> 1
    [] args.responses[i].provider = "Polygon" -> 2
    [] args.responses[i].provider = "Yahoo Finance" -> 3

\* Alpha Vantage and Polygon are configured by their API keys, Yahoo Finance
\* needs none
Configured(p) ==
  CASE p = 1 -> alpha_vantage_key # ""
    [] p = 2 -> polygon_key # ""
    [] p = 3 -> TRUE

\* what the i-th provider asked makes of its response
Yield(i) ==
  LET a == args.responses[i]
  IN  CASE a.provider = "Alpha Vantage" ->
             _fetch_from_alpha_vantage(a.response, SearchSymbol)
        [] a.provider = "Polygon" -> _fetch_from_polygon(a.response, SearchSymbol)
        [] a.provider = "Yahoo Finance" ->
             _fetch_from_free_sources(a.response, SearchSymbol)

\* C22: search_etf asks the providers in the order Alpha Vantage, Polygon,
\* Yahoo Finance, leaving out Alpha Vantage or Polygon when its key is not
\* configured; it returns the record of the first provider that yields one
\* and asks no provider after it; when every provider yields null it returns
\* null, as a normal result
C22_ProvidersInPriorityOrder ==
  SearchReturned =>
    LET n == Len(args.responses)
    IN  /\ \A i, j \in 1..n : i < j => Priority(i) < Priority(j)
        /\ \A i \in 1..n : Configured(Priority(i))
        /\ \A i \in 1..(n - 1) : Yield(i) = None
        /\ \A p \in 1..3 :
             (Configured(p) /\ \A i \in 1..n : Priority(i) # p) =>
               \E i \in 1..n : Priority(i) < p /\ Yield(i) # None
        /\ n > 0
        /\ result = Yield(n)
        /\ raised = "none"

\* Alpha Vantage yields nothing, Polygon yields the record returned and
\* Yahoo Finance is not asked
C22_Witness ==
  /\ SearchReturned
  /\ Len(args.responses) = 2
  /\ args.responses[1].provider = "Alpha Vantage"
  /\ args.responses[1].response.status_code = 500
  /\ args.responses[2].provider = "Polygon"
  /\ result # None
  /\ result.data_source = "Polygon"

\* the least configured provider ranked after p, or 0 when there is none
NextConfigured(p) ==
  IF \E q \in (p + 1)..3 : Configured(q)
  THEN Min({q \in (p + 1)..3 : Configured(q)})
  ELSE 0

\* the i-th provider asked failed as a whole: the request raised, the status
\* is not 200, or the answer lacks what the provider looks for (Alpha
\* Vantage: Symbol, equal to the symbol asked for; Polygon: results, a dict;
\* Yahoo Finance: an info with symbol)
ProviderFailed(i) ==
  LET a == args.responses[i]
      r == a.response
  IN  CASE a.provider = "Alpha Vantage" ->
             \/ r.raises
             \/ r.status_code # 200
             \/ "Symbol" \notin DOMAIN r.data
             \/ r.data.Symbol # SearchSymbol
        [] a.provider = "Polygon" ->
             \/ r.raises
             \/ r.status_code # 200
             \/ "results" \notin DOMAIN r.data
             \/ IsList(r.data.results)
        [] a.provider = "Yahoo Finance" ->
             \/ r.raises
             \/ r.info = << >>
             \/ "symbol" \notin DOMAIN r.info

\* reading the institutional holders raised inside Yahoo Finance
HoldersFailed(i) ==
  /\ args.responses[i].provider = "Yahoo Finance"
  /\ args.responses[i].response.holders_raise

\* the failure of the i-th provider asked yields null and the next provider
\* configured, if any, is asked
Absorbed(i) ==
  /\ Yield(i) = None
  /\ NextConfigured(Priority(i)) # 0 =>
       /\ i < Len(args.responses)
       /\ Priority(i + 1) = NextConfigured(Priority(i))

KnownSymbol ==
  \E i \in 1..Len(get_popular_etfs) : get_popular_etfs[i] = SearchSymbol

\* C24 (as stated): when no live provider is configured or responds, a
\* search for a symbol of the static table of known symbols yields a partial
\* record (name, issuer and category), not null
C24_KnownSymbolYieldsPartialRecord ==
  (/\ SearchReturned
   /\ KnownSymbol
   /\ \A i \in 1..Len(args.responses) : Yield(i) = None) =>
    /\ result # None
    /\ {"symbol", "name", "issuer", "category"} \subseteq DOMAIN result
    /\ result.symbol = SearchSymbol

\* C25 (as stated): when the response of the provider does not contain the
\* fund's total assets, the aum of the record is null or absent, or reads
\* as unavailable ("N/A"); it is never filled from another field of the
\* response, such as the fund's inception date
C25_AumOnlyFromTotalAssets ==
  (SearchReturned /\ result # None /\ result.data_source = "Yahoo Finance") =>
    LET info == args.responses[Len(args.responses)].response.info
    IN  ("totalAssets" \notin DOMAIN info \/ info.totalAssets = None) =>
          ("aum" \notin DOMAIN result \/ result.aum \in {None, NA})

(***************************************************************************)
(* Properties of repeated and of interleaved calls.                        *)
(***************************************************************************)
\* generate_comparison_summary has been invoked a second time on the same
\* two records
SummaryRepeated == SummaryCalled /\ "first" \in DOMAIN args

\* C26 (as stated): two invocations of generate_comparison_summary on the
\* same pair of records return equal summaries, the order of the
\* overlapping_holdings entries of equal weight_difference included
C26_SummaryDeterministic ==
  SummaryRepeated =>
    /\ raised = args.first.raised
    /\ result = args.first.value

\* what session s holds: where its call stands, the operation, the records,
\* and the outcome
SessionState(s) == <<pc[s], op[s], args[s], result[s], raised[s]>>

\* the outcome of a call that has returned is one the operation has on the
\* call's own two records
ResultAsIfAlone ==
  \A s \in Sessions :
    pc[s] = "returned" =>
      [raised |-> raised[s], value |-> result[s]] \in Invoke(op[s], args[s])

\* a step writes no field of the shared instances, leaves the records of a
\* call as they were handed over while the call lasts, and leaves the
\* other session as it was
StepKeepsInstanceAndRecords ==
  /\ alpha_vantage_key' = alpha_vantage_key
  /\ polygon_key' = polygon_key
  /\ \A s \in Sessions :
       (pc[s] # "idle" /\ pc'[s] # "idle") => args'[s] = args[s]
  /\ \A s, t \in Sessions :
       (s # t /\ SessionState(s)' # SessionState(s)) =>
         SessionState(t)' = SessionState(t)

AllPlaceholder(holdings) ==
  /\ Len(holdings) > 0
  /\ \A i \in 1..Len(holdings) :
       /\ "ticker" \in DOMAIN holdings[i]
       /\ holdings[i].ticker = <<"N", "/", "A">>

\* C28: the placeholder ticker "N/A" is matched like a real ticker: for two
\* holdings lists in which every ticker is "N/A", calculate_portfolio_overlap
\* returns 100.0 and find_overlapping_holdings returns exactly one entry,
\* with ticker "N/A", whatever the holders are
C28_PlaceholderTickerMatches ==
  (/\ pc = "returned"
   /\ op \in {"calculate_portfolio_overlap", "find_overlapping_holdings"}
   /\ AllPlaceholder(args.holdings1)
   /\ AllPlaceholder(args.holdings2)) =>
    /\ raised = "none"
    /\ OverlapReturned => result = 10000
    /\ FindReturned =>
         /\ Len(result) = 1
         /\ result[1].ticker = <<"N", "/", "A">>

\* two lists of two holders each, no holder of one with the weight of a
\* holder of the other at the same place, give one entry
C28_Witness ==
  /\ FindReturned
  /\ AllPlaceholder(args.holdings1)
  /\ AllPlaceholder(args.holdings2)
  /\ Len(args.holdings1) = 2
  /\ args.holdings1[1].weight # args.holdings1[2].weight
  /\ args.holdings1[1].weight # args.holdings2[1].weight
  /\ Len(result) = 1

\* C29: a call of search_etf makes at most three provider attempts: each of
\* Alpha Vantage, Polygon and Yahoo Finance is asked at most once, never
\* after a provider that ranks behind it, and Yahoo Finance is asked exactly
\* when no provider asked before it has yielded a record
C29_AtMostThreeAttempts ==
  SearchReturned =>
    LET n == Len(args.responses)
    IN  /\ n <= 3
        /\ \A i, j \in 1..n :
             i # j => args.responses[i].provider # args.responses[j].provider
        /\ \A i, j \in 1..n : i < j => Priority(i) < Priority(j)
        /\ (\E i \in 1..n : Priority(i) = 3) <=>
             (\A i \in 1..n : Priority(i) < 3 => Yield(i) = None)

\* the three providers are asked, one after the other, and none yields a
\* record
C29_Witness ==
  /\ SearchReturned
  /\ Len(args.responses) = 3
  /\ args.responses[1].provider = "Alpha Vantage"
  /\ args.responses[2].provider = "Polygon"
  /\ args.responses[3].provider = "Yahoo Finance"
  /\ result = None

(***************************************************************************)
(* Properties of the comparison page.                                      *)
(***************************************************************************)
\* the handler of Compare has run to its end with both symbols entered
Compared ==
  /\ pc = "returned"
  /\ op = "show_comparison_page"
  /\ args.etf1_symbol # << >>
  /\ args.etf2_symbol # << >>

\* the search of the first (e = 1) or second (e = 2) ETF returned null
NotFound(e) == IF e = 1 THEN args.etf1_data = None ELSE args.etf2_data = None

SummaryInvoked ==
  \E i \in 1..Len(args.calls) :
    args.calls[i].operation = "generate_comparison_summary"

\* C30: pressing Compare with both symbols entered issues both searches,
\* the first ETF's and then the second's, the second also when the first
\* found nothing; generate_comparison_summary is invoked only when both
\* searches returned a record; when either returned null no comparison is
\* shown and an error is shown for each ETF that was not found
C30_BothSearchedThenComparedOrReported ==
  Compared =>
    /\ Len(args.calls) >= 2
    /\ args.calls[1] = Call("search_etf", args.etf1_symbol)
    /\ args.calls[2] = Call("search_etf", args.etf2_symbol)
    /\ \A i \in 3..Len(args.calls) : args.calls[i].operation # "search_etf"
    /\ SummaryInvoked => (args.etf1_data # None /\ args.etf2_data # None)
    /\ (args.etf1_data = None \/ args.etf2_data = None) =>
         result.shown =
           [i \in 1..Cardinality({e \in {1, 2} : NotFound(e)}) |->
              IF i = 1 /\ NotFound(1)
              THEN Message("error", args.etf1_symbol)
              ELSE Message("error", args.etf2_symbol)]

\* the first search finds nothing, the second is made all the same and
\* finds a record: no comparison, one error
C30_Witness ==
  /\ Compared
  /\ args.etf1_symbol # args.etf2_symbol
  /\ args.etf1_data = None
  /\ args.etf2_data # None
  /\ Len(args.calls) = 2
  /\ result.shown = <<Message("error", args.etf1_symbol)>>

====
